---- MODULE Spec2Model ----
(***************************************************************************)
(* Verification model of josh/overcast-data: the file-backed HTTP response *)
(* cache (requests_cache.Session), its codec, its cache paths, its purge,  *)
(* and the overcast._request wrapper that sits on top of it.               *)
(*                                                                         *)
(* The clock counts whole seconds.  A datetime or timedelta inside the     *)
(* program counts ticks, TicksPerSecond of them to the second, because a   *)
(* timedelta (the ttl) can carry a fraction of a second.  The HTTP dates   *)
(* the code stores (Date, Expires) have second resolution; a header value  *)
(* n stands for the text "%a, %d %b %Y %H:%M:%S GMT" of second n.          *)
(* datetime.now() is the host's naive LOCAL wall clock, i.e. the GMT       *)
(* instant plus the host's UTC offset.                                     *)
(***************************************************************************)
EXTENDS Integers, Sequences, FiniteSets, TLC

VARIABLES
    files,            \* cache directory: cache path -> bytes of the file
    directories,      \* the directories that exist under the cache root
    clock,            \* the real instant, in seconds GMT
    tz,               \* UTC offset of the host (local = GMT + tz)
    offline,          \* Session._offline
    last_request_at,  \* Session._last_request_at (naive local time)
    sent_at,          \* the real second at which this Session last sent a
                      \* request (NeverSent: it has sent none)
    cache,            \* the LRUCache object: path, _data, _max_bytesize,
                      \* _did_change
    disk,             \* the bytes of the file at the LRU cache's path
    procs,            \* processes that share the cache directory: where
                      \* each is in Session.get, and the order in which
                      \* their writes ended
    db,               \* the Database of a CLI run and its two csv files
    result            \* the call this step made, if it made one: its
                      \* arguments, what it did, what the network answered
                      \* (0: no answer) and what it gave back

vars == <<files, directories, clock, tz, offline, last_request_at, sent_at,
          cache, disk, procs, db, result>>

(***************************************************************************)
(* Bounds                                                                  *)
(***************************************************************************)
MaxClock == 1
MaxTTL == 2
MaxTz == 1
\* longest body handed to the codec on its own
MaxBody == 2
TicksPerSecond == 2

(***************************************************************************)
(* Program constants                                                       *)
(***************************************************************************)
\* datetime.min: earlier than every datetime the model can reach
DatetimeMin == -1000
\* datetime.max: later than every datetime the model can reach
DatetimeMax == 1000
\* timedelta.max: added to any datetime the model can reach, it overflows
TimedeltaMax == 2000
\* Session(min_time_between_requests=timedelta(seconds=10)), scaled to one
\* second of the model's clock
MinTimeBetweenRequests == TicksPerSecond
\* "Log In", the literal _request looks for in response.text
LoginMarker == "Log In"
LF == "LF"
CR == "CR"

base_netloc == "overcast.fm"
\* the Accept header overcast.session puts on the requests session
SessionAccept == "text/html,application/xhtml+xml,application/xml;q=0.9,*/*;q=0.8"
NoAccept == "None"
\* LRUCache(path=None)
NoPath == "None"
\* there is no file at the path
NoFile == <<>>
\* the state machines of the HTTP cache have no LRUCache at hand
NoCache == [path |-> NoPath, _data |-> <<>>, _max_bytesize |-> 0, _did_change |-> FALSE]
\* no second of the clock: the session has not sent a request yet
NeverSent == -1
\* no process is inside Session.get
NoProcs == [state |-> <<>>, finished |-> <<>>]
\* no CLI run has a Database open
NoDb == [pc |-> "none"]
NoExt == ""

(***************************************************************************)
(* Responses.  A requests.Response is its status code, reason, headers (in *)
(* order, one entry per case-insensitive name) and raw content bytes.      *)
(* Content is a sequence of bytes; LoginMarker stands for the byte run     *)
(* "Log In", LF and CR for the two line-break bytes.                       *)
(***************************************************************************)
Response(code, reason, headers, content) ==
    [status_code |-> code, reason |-> reason, headers |-> headers, content |-> content]

\* Python's None where a Response is expected
None == Response(0, "None", <<>>, <<>>)

\* the exception bytes_to_response raises on bytes it cannot parse
Malformed == Response(-1, "Malformed", <<>>, <<>>)

Header(k, v) == [name |-> k, value |-> v]

\* "k in response.headers"
HasHeader(headers, k) == \E i \in 1..Len(headers) : headers[i].name = k

\* response.headers[k]
GetHeader(headers, k) ==
    headers[CHOOSE i \in 1..Len(headers) : headers[i].name = k].value

\* response.headers[k] = v  (CaseInsensitiveDict keeps the position of a
\* key that is already present and appends a new one)
SetHeader(headers, k, v) ==
    IF HasHeader(headers, k)
    THEN [i \in 1..Len(headers) |->
            IF headers[i].name = k THEN Header(k, v) ELSE headers[i]]
    ELSE Append(headers, Header(k, v))

\* Response.ok / Response.__bool__: raise_for_status() does not raise
ResponseOk(r) == ~(r.status_code >= 400 /\ r.status_code < 600)

\* truth value of "cached_response" where it is Response | None
Truthy(r) == r # None /\ ResponseOk(r)

(***************************************************************************)
(* Codec.  The bytes of a cache file are a sequence of tokens: the text of *)
(* the status line, the text of one "k: v" header line, or one raw byte.   *)
(***************************************************************************)
StatusTok(code, reason) == [t |-> "status", s |-> reason, n |-> code]
HeaderTok(k, v) == [t |-> "header", s |-> k, n |-> v]
ByteTok(b) == [t |-> "byte", s |-> b, n |-> 0]

IsBreak(tok) == tok.t = "byte" /\ tok.s \in {LF, CR}

RECURSIVE HeaderLines(_)
HeaderLines(headers) ==
    IF headers = <<>> THEN <<>>
    ELSE <<HeaderTok(Head(headers).name, Head(headers).value), ByteTok(LF)>>
            \o HeaderLines(Tail(headers))

response_to_bytes(response) ==
    <<StatusTok(response.status_code, response.reason), ByteTok(LF)>>
        \o HeaderLines(response.headers)
        \o <<ByteTok(LF)>>
        \o [i \in 1..Len(response.content) |-> ByteTok(response.content[i])]

\* bytes.splitlines(): breaks at LF, CR and CR LF; no empty last line
RECURSIVE splitlines(_)
splitlines(data) ==
    IF data = <<>> THEN <<>>
    ELSE IF \A i \in 1..Len(data) : ~IsBreak(data[i]) THEN <<data>>
    ELSE LET i == CHOOSE j \in 1..Len(data) :
                    IsBreak(data[j]) /\ \A m \in 1..(j-1) : ~IsBreak(data[m])
             skip == IF data[i].s = CR /\ i < Len(data) /\ data[i+1] = ByteTok(LF)
                     THEN 2 ELSE 1
         IN  <<SubSeq(data, 1, i-1)>> \o splitlines(SubSeq(data, i+skip, Len(data)))

\* b"\n".join(lines)
RECURSIVE JoinLF(_)
JoinLF(lines) ==
    IF lines = <<>> THEN <<>>
    ELSE IF Len(lines) = 1 THEN Head(lines)
    ELSE Head(lines) \o <<ByteTok(LF)>> \o JoinLF(Tail(lines))

RECURSIVE ParseHeaders(_, _)
ParseHeaders(lines, acc) ==
    IF lines = <<>> THEN acc
    ELSE ParseHeaders(Tail(lines), SetHeader(acc, Head(lines)[1].s, Head(lines)[1].n))

bytes_to_response(data) ==
    LET lines == splitlines(data)
    IN  IF lines = <<>> THEN Malformed
        ELSE IF ~(Len(lines[1]) = 1 /\ lines[1][1].t = "status") THEN Malformed
        ELSE IF \A i \in 1..Len(lines) : lines[i] # <<>> THEN Malformed
        ELSE LET body_index == CHOOSE j \in 1..Len(lines) :
                        lines[j] = <<>> /\ \A m \in 1..(j-1) : lines[m] # <<>>
                 hlines == SubSeq(lines, 2, body_index - 1)
                 body == JoinLF(SubSeq(lines, body_index + 1, Len(lines)))
             IN  IF \E i \in 1..Len(hlines) :
                        ~(Len(hlines[i]) = 1 /\ hlines[i][1].t = "header")
                 THEN Malformed
                 ELSE Response(lines[1][1].n, lines[1][1].s,
                               ParseHeaders(hlines, <<>>),
                               [i \in 1..Len(body) |-> body[i].s])

\* strftime("%a, %d %b %Y %H:%M:%S GMT") of a naive datetime: the text of
\* its second (the fraction is dropped), whatever zone it was taken in
strftime(d) == d \div TicksPerSecond

\* datetime.strptime(text, "%a, %d %b %Y %H:%M:%S GMT"): a naive datetime
strptime(v) == v * TicksPerSecond

\* response_date; the caller has checked that the Date header is there
response_date(response) == strptime(GetHeader(response.headers, "Date"))

response_expires(response) ==
    IF ~HasHeader(response.headers, "Expires") THEN DatetimeMin
    ELSE strptime(GetHeader(response.headers, "Expires"))


(***************************************************************************)
(* Requests and cache paths.  A URL under the base URL is the directories  *)
(* of its path, the dot-separated pieces of its last path segment and the  *)
(* dot-separated pieces of its query string (<<>> when there is none).     *)
(***************************************************************************)
Url(dirs, name, query) == [dirs |-> dirs, name |-> name, query |-> query]
Request(url, accept) == [url |-> url, accept |-> accept]

\* _DEFAULT_MIME_TYPE_EXTNAMES
mime_type_extnames(accept) ==
    CASE accept = "application/json" -> "json"
      [] accept = "application/xml" -> "xml"
      [] accept = "text/html" -> "html"
      [] OTHER -> NoExt

\* Session.prepare_request: the request's Accept, else the session's
PreppedAccept(request) ==
    IF request.accept # NoAccept THEN request.accept ELSE SessionAccept

\* Path.with_name(f"{name}?{query}")
WithQuery(name, query) ==
    IF query = <<>> THEN name
    ELSE SubSeq(name, 1, Len(name) - 1)
            \o <<name[Len(name)] \o "?" \o Head(query)>>
            \o Tail(query)

\* Path.with_suffix("." + extname): the last dot-separated piece is
\* replaced when the name has a suffix, else the piece is added
WithSuffix(name, extname) ==
    IF Len(name) > 1 /\ name[Len(name)] # ""
            /\ ~(Len(name) = 2 /\ name[1] = "")
    THEN SubSeq(name, 1, Len(name) - 1) \o <<extname>>
    ELSE name \o <<extname>>

cache_path(request) ==
    LET named == WithQuery(request.url.name, request.url.query)
        extname == mime_type_extnames(PreppedAccept(request))
    IN  [dirs |-> <<base_netloc>> \o request.url.dirs,
         name |-> IF extname # NoExt THEN WithSuffix(named, extname) ELSE named]

(***************************************************************************)
(* The network.  One send gives a response the server built at the instant *)
(* of the request, or raises a transport error (requests.ConnectionError). *)
(***************************************************************************)
Reason(code) ==
    CASE code = 200 -> "OK"
      [] code = 404 -> "Not Found"
      [] code = 429 -> "Too Many Requests"
      [] code = 500 -> "Internal Server Error"
      [] OTHER -> ""

StatusCodes == {200, 404, 429, 500}

Bodies == { <<LoginMarker, LF>>, <<"x", CR, "x">> }

Net(kind, code, has_date, content) ==
    [kind |-> kind, status_code |-> code, has_date |-> has_date, content |-> content]

\* a success with or without a Date header, an error status, or no
\* response at all
NetOutcomes ==
    { Net("response", 200, TRUE, b) : b \in Bodies }
        \cup { Net("response", 200, FALSE, <<"x">>) }
        \cup { Net("response", c, TRUE, <<"x">>) : c \in StatusCodes \ {200} }
        \cup { Net("error", 0, FALSE, <<>>) }

\* the response the server sends at second clk
NetResponse(net, clk) ==
    Response(net.status_code, Reason(net.status_code),
             <<Header("Content-Type", 1)>>
                \o (IF net.has_date THEN <<Header("Date", clk)>> ELSE <<>>),
             net.content)

(***************************************************************************)
(* requests_cache.Session                                                  *)
(***************************************************************************)
\* datetime.now() at instant clk on a host whose UTC offset is zone
now(clk, zone) == (clk + zone) * TicksPerSecond

\* the wait is computed but not slept
_throttle_no_sleep(last, clk, zone) ==
    [clock |-> clk, last_request_at |-> now(clk, zone),
     slept |-> last + MinTimeBetweenRequests - now(clk, zone) > 0]

\* Session._throttle: what the clock and _last_request_at are afterwards
_throttle(last, clk, zone) ==
    LET seconds_to_wait == last + MinTimeBetweenRequests - now(clk, zone)
        woke == IF seconds_to_wait > 0
                THEN clk + ((seconds_to_wait + TicksPerSecond - 1) \div TicksPerSecond)
                ELSE clk
    IN  [clock |-> woke, last_request_at |-> now(woke, zone),
         slept |-> seconds_to_wait > 0]

\* the comparison turned round
CacheValid_reversed(cache_expires, clk, zone) == cache_expires < now(clk, zone)

\* an entry that expires this very second still counts as valid
CacheValid_inclusive(cache_expires, clk, zone) == cache_expires >= now(clk, zone)

\* "cache_expires > datetime.now()"
CacheValid(cache_expires, clk, zone) == cache_expires > now(clk, zone)

\* the fallback taken only when there is nothing to fall back on
StaleFallback_negated(stale_cache_on_error, cached_response) ==
    stale_cache_on_error /\ ~Truthy(cached_response)

\* the caller's stale_cache_on_error is not looked at
StaleFallback_always(stale_cache_on_error, cached_response) ==
    Truthy(cached_response)

\* "stale_cache_on_error and cached_response"
StaleFallback(stale_cache_on_error, cached_response) ==
    stale_cache_on_error /\ Truthy(cached_response)

\* the outcome of a call that changes nothing on disk and sends nothing
Outcome(outcome, path, response, from_cache, error, error_status, fs, clk, last) ==
    [outcome |-> outcome, path |-> path, response |-> response,
     from_cache |-> from_cache, error |-> error, error_status |-> error_status,
     sent |-> 0, throttled |-> 0, slept |-> FALSE, wrote |-> FALSE, answer |-> 0,
     files |-> fs, clock |-> clk, last_request_at |-> last]

\* a 429 is waited out and the request sent once more
GetNetwork_retries_429(fs, clk, zone, last, filepath, cached_response, ttl, stale_cache_on_error, net) ==
    LET th == _throttle(last, clk, zone)
        again == _throttle(th.last_request_at, th.clock, zone)
        r == NetResponse(net, th.clock)
        base == [Outcome("raise", "", None, FALSE, "", 0, fs, th.clock, th.last_request_at)
                    EXCEPT !.sent = 1, !.throttled = 1, !.slept = th.slept,
                           !.answer = net.status_code]
    IN  IF net.kind = "error"
        THEN [base EXCEPT !.path = "transport_error", !.error = "ConnectionError"]
        ELSE IF r.status_code = 429
        THEN [base EXCEPT !.path = "http_error", !.error = "HTTPError",
                          !.error_status = r.status_code,
                          !.sent = 2, !.throttled = 2, !.slept = TRUE,
                          !.clock = again.clock,
                          !.last_request_at = again.last_request_at]
        ELSE IF ~ResponseOk(r)
        THEN IF StaleFallback(stale_cache_on_error, cached_response)
             THEN [base EXCEPT !.outcome = "return", !.path = "stale_on_error",
                               !.response = cached_response, !.from_cache = TRUE]
             ELSE [base EXCEPT !.path = "http_error", !.error = "HTTPError",
                               !.error_status = r.status_code]
        ELSE IF ~HasHeader(r.headers, "Date")
        THEN [base EXCEPT !.path = "no_date", !.error = "KeyError"]
        ELSE LET response_expires_at == response_date(r) + ttl
                 stored == [r EXCEPT !.headers =
                                SetHeader(r.headers, "Expires", strftime(response_expires_at))]
             IN  [base EXCEPT !.outcome = "return", !.path = "network_ok",
                              !.response = stored, !.wrote = TRUE,
                              !.files = (filepath :> response_to_bytes(stored)) @@ fs]

\* the answer is written to the cache file whatever its status
GetNetwork_writes_errors(fs, clk, zone, last, filepath, cached_response, ttl, stale_cache_on_error, net) ==
    LET th == _throttle(last, clk, zone)
        r == NetResponse(net, th.clock)
        base == [Outcome("raise", "", None, FALSE, "", 0, fs, th.clock, th.last_request_at)
                    EXCEPT !.sent = 1, !.throttled = 1, !.slept = th.slept,
                           !.answer = net.status_code]
    IN  IF net.kind = "error"
        THEN [base EXCEPT !.path = "transport_error", !.error = "ConnectionError"]
        ELSE IF ~HasHeader(r.headers, "Date")
        THEN [base EXCEPT !.path = "no_date", !.error = "KeyError"]
        ELSE LET response_expires_at == response_date(r) + ttl
                 stored == [r EXCEPT !.headers =
                                SetHeader(r.headers, "Expires", strftime(response_expires_at))]
                 written == (filepath :> response_to_bytes(stored)) @@ fs
             IN  IF ~ResponseOk(r)
                 THEN IF StaleFallback(stale_cache_on_error, cached_response)
                      THEN [base EXCEPT !.outcome = "return", !.path = "stale_on_error",
                                        !.response = cached_response, !.from_cache = TRUE,
                                        !.files = written]
                      ELSE [base EXCEPT !.path = "http_error", !.error = "HTTPError",
                                        !.error_status = r.status_code,
                                        !.files = written]
                 ELSE [base EXCEPT !.outcome = "return", !.path = "network_ok",
                                   !.response = stored, !.wrote = TRUE,
                                   !.files = written]

\* Session.get, lines 106-128: throttle, send, fall back or persist
GetNetwork(fs, clk, zone, last, filepath, cached_response, ttl, stale_cache_on_error, net) ==
    LET th == _throttle(last, clk, zone)
        r == NetResponse(net, th.clock)
        base == [Outcome("raise", "", None, FALSE, "", 0, fs, th.clock, th.last_request_at)
                    EXCEPT !.sent = 1, !.throttled = 1, !.slept = th.slept,
                           !.answer = net.status_code]
    IN  IF net.kind = "error"
        THEN [base EXCEPT !.path = "transport_error", !.error = "ConnectionError"]
        ELSE IF ~ResponseOk(r)
        THEN IF StaleFallback(stale_cache_on_error, cached_response)
             THEN [base EXCEPT !.outcome = "return", !.path = "stale_on_error",
                               !.response = cached_response, !.from_cache = TRUE]
             ELSE [base EXCEPT !.path = "http_error", !.error = "HTTPError",
                               !.error_status = r.status_code]
        ELSE IF ~HasHeader(r.headers, "Date")
        THEN [base EXCEPT !.path = "no_date", !.error = "KeyError"]
        ELSE LET response_expires_at == response_date(r) + ttl
                 stored == [r EXCEPT !.headers =
                                SetHeader(r.headers, "Expires", strftime(response_expires_at))]
             IN  [base EXCEPT !.outcome = "return", !.path = "network_ok",
                              !.response = stored, !.wrote = TRUE,
                              !.files = (filepath :> response_to_bytes(stored)) @@ fs]

\* the offline check is missing
GetUncached_no_offline_check(fs, clk, zone, off, last, filepath, cached_response, ttl, stale_cache_on_error, net) ==
    GetNetwork(fs, clk, zone, last, filepath, cached_response, ttl, stale_cache_on_error, net)

\* offline mode refuses an entry that is not fresh
GetUncached_offline_refuses(fs, clk, zone, off, last, filepath, cached_response, ttl, stale_cache_on_error, net) ==
    IF off
    THEN Outcome("raise", "offline_error", None, FALSE, "OfflineError", 0, fs, clk, last)
    ELSE GetNetwork(fs, clk, zone, last, filepath, cached_response, ttl, stale_cache_on_error, net)

\* Session.get, lines 99-104 and on
GetUncached(fs, clk, zone, off, last, filepath, cached_response, ttl, stale_cache_on_error, net) ==
    IF off
    THEN IF Truthy(cached_response)
         THEN Outcome("return", "offline_stale", cached_response, TRUE, "", 0, fs, clk, last)
         ELSE Outcome("raise", "offline_error", None, FALSE, "OfflineError", 0, fs, clk, last)
    ELSE GetNetwork(fs, clk, zone, last, filepath, cached_response, ttl, stale_cache_on_error, net)

\* the throttle runs ahead of the cache lookup, so a fresh hit waits too
Session_get_throttles_hit(fs, clk, zone, off, last, request, ttl, stale_cache_on_error, net) ==
    LET filepath == cache_path(request)
        th == _throttle(last, clk, zone)
    IN  IF filepath \in DOMAIN fs
        THEN LET cached_response == bytes_to_response(fs[filepath])
             IN  IF cached_response = Malformed
                 THEN Outcome("raise", "corrupt", None, FALSE, "ValueError", 0, fs, clk, last)
                 ELSE IF ~HasHeader(cached_response.headers, "Date")
                 THEN Outcome("raise", "corrupt", None, FALSE, "KeyError", 0, fs, clk, last)
                 ELSE IF CacheValid(response_expires(cached_response), clk, zone)
                 THEN [Outcome("return", "fresh", cached_response, TRUE, "", 0, fs,
                               th.clock, th.last_request_at)
                          EXCEPT !.throttled = 1, !.slept = th.slept]
                 ELSE GetUncached(fs, clk, zone, off, last, filepath, cached_response,
                                  ttl, stale_cache_on_error, net)
        ELSE GetUncached(fs, clk, zone, off, last, filepath, None,
                         ttl, stale_cache_on_error, net)

\* Session.get
Session_get(fs, clk, zone, off, last, request, ttl, stale_cache_on_error, net) ==
    LET filepath == cache_path(request)
    IN  IF filepath \in DOMAIN fs
        THEN LET cached_response == bytes_to_response(fs[filepath])
             IN  IF cached_response = Malformed
                 THEN Outcome("raise", "corrupt", None, FALSE, "ValueError", 0, fs, clk, last)
                 ELSE IF ~HasHeader(cached_response.headers, "Date")
                 THEN Outcome("raise", "corrupt", None, FALSE, "KeyError", 0, fs, clk, last)
                 ELSE IF CacheValid(response_expires(cached_response), clk, zone)
                 THEN Outcome("return", "fresh", cached_response, TRUE, "", 0, fs, clk, last)
                 ELSE GetUncached(fs, clk, zone, off, last, filepath, cached_response,
                                  ttl, stale_cache_on_error, net)
        ELSE GetUncached(fs, clk, zone, off, last, filepath, None,
                         ttl, stale_cache_on_error, net)

\* Session.cached_response: None when there is no cache file
Session_cached_response(fs, request) ==
    IF cache_path(request) \in DOMAIN fs
    THEN bytes_to_response(fs[cache_path(request)])
    ELSE None

\* Session.is_cache_fresh: "True", "False", or the error the decoding of
\* the file raises
is_cache_fresh(fs, clk, zone, request) ==
    LET response == Session_cached_response(fs, request)
    IN  IF response = Malformed THEN "ValueError"
        ELSE IF Truthy(response) /\ now(clk, zone) < response_expires(response)
        THEN "True"
        ELSE "False"

(***************************************************************************)
(* overcast._request                                                       *)
(***************************************************************************)
\* "Log In" in response.text
HasLoginMarker(response) ==
    \E i \in 1..Len(response.content) : response.content[i] = LoginMarker

\* the marker is looked for in network responses only
_request_unchecked_cache(o) ==
    IF o.outcome = "raise"
    THEN IF o.error = "HTTPError" /\ o.error_status = 429
         THEN [o EXCEPT !.error = "RatedLimitedError"]
         ELSE o
    ELSE IF ~o.from_cache /\ HasLoginMarker(o.response)
    THEN [o EXCEPT !.outcome = "raise", !.error = "LoggedOutError",
                   !.response = None, !.from_cache = FALSE]
    ELSE o

\* what _request makes of the outcome of session.requests_session.get
_request(o) ==
    IF o.outcome = "raise"
    THEN IF o.error = "HTTPError" /\ o.error_status = 429
         THEN [o EXCEPT !.error = "RatedLimitedError"]
         ELSE o
    ELSE IF HasLoginMarker(o.response)
    THEN [o EXCEPT !.outcome = "raise", !.error = "LoggedOutError",
                   !.response = None, !.from_cache = FALSE]
    ELSE o

(***************************************************************************)
(* State machine                                                           *)
(***************************************************************************)
Urls == { Url(<<>>, <<"podcasts">>, <<>>) }
Accepts == { "text/html" }
Requests == { Request(u, a) : u \in Urls, a \in Accepts }
\* no ttl, a fraction of a second, the longest ttl
TTLs == {0, 1, MaxTTL}
TzOffsets == { 0 - MaxTz, 0, MaxTz }

\* the step was not a call of get or _request
NoCall ==
    [api |-> "none", request |-> Request(Url(<<>>, <<>>, <<>>), NoAccept),
     ttl |-> 0, stale |-> FALSE,
     outcome |-> "none", path |-> "", response |-> None,
     from_cache |-> FALSE, error |-> "", error_status |-> 0,
     sent |-> 0, throttled |-> 0, slept |-> FALSE, wrote |-> FALSE, answer |-> 0]

\* the directory and all the directories above it, below the cache root
Parents(dir) == { SubSeq(dir, 1, n) : n \in 1..Len(dir) }

Init ==
    /\ files = <<>>
    /\ directories = {}
    /\ clock = 0
    /\ tz \in TzOffsets
    /\ offline \in BOOLEAN
    /\ last_request_at = DatetimeMin
    /\ sent_at = NeverSent
    /\ cache = NoCache
    /\ disk = NoFile
    /\ procs = NoProcs
    /\ db = NoDb
    /\ result = NoCall

\* the state after a call whose outcome is o
Finish(api, request, ttl, stale, o) ==
    /\ files' = o.files
    \* filepath.parent.mkdir(parents=True, exist_ok=True)
    /\ directories' = IF o.wrote
                      THEN directories \cup Parents(cache_path(request).dirs)
                      ELSE directories
    /\ clock' = o.clock
    /\ last_request_at' = o.last_request_at
    /\ sent_at' = IF o.sent = 1 THEN o.clock ELSE sent_at
    /\ result' = [api |-> api, request |-> request, ttl |-> ttl, stale |-> stale,
                  outcome |-> o.outcome, path |-> o.path, response |-> o.response,
                  from_cache |-> o.from_cache, error |-> o.error,
                  error_status |-> o.error_status,
                  sent |-> o.sent, throttled |-> o.throttled, slept |-> o.slept,
                  wrote |-> o.wrote,
                  answer |-> o.answer]
    /\ UNCHANGED <<tz, offline, cache, disk, procs, db>>

\* a caller runs session.get(path, request_accept, response_expires_in,
\* stale_cache_on_error)
Get(request, ttl, stale, net) ==
    /\ clock <= MaxClock
    /\ Finish("get", request, ttl, stale,
              Session_get(files, clock, tz, offline, last_request_at,
                          request, ttl, stale, net))

\* a caller runs overcast._request(session, url, controller, accept,
\* response_expires_in); stale_cache_on_error keeps its default, True
OvercastRequest(request, ttl, net) ==
    /\ clock <= MaxClock
    /\ Finish("_request", request, ttl, TRUE,
              _request(Session_get(files, clock, tz, offline, last_request_at,
                                   request, ttl, TRUE, net)))

\* a later run of the program builds a new Session on the same cache
\* directory: Session.__init__
NewSession(off) ==
    /\ offline' = off
    /\ last_request_at' = DatetimeMin
    /\ sent_at' = NeverSent
    /\ result' = NoCall
    /\ UNCHANGED <<files, directories, clock, tz, cache, disk, procs, db>>

\* a second passes
Tick ==
    /\ clock < MaxClock
    /\ clock' = clock + 1
    /\ result' = NoCall
    /\ UNCHANGED <<files, directories, tz, offline, last_request_at, sent_at, cache, disk, procs, db>>

\* the network comes into a call only when the call sends a request
NoAnswer == Net("none", 0, FALSE, <<>>)

Answers(request) ==
    IF Session_get(files, clock, tz, offline, last_request_at,
                   request, 0, TRUE, NoAnswer).sent = 1
    THEN NetOutcomes
    ELSE {NoAnswer}

Next ==
    \/ \E request \in Requests, ttl \in TTLs, stale \in BOOLEAN :
            \E net \in Answers(request) : Get(request, ttl, stale, net)
    \/ \E request \in Requests, ttl \in TTLs :
            \E net \in Answers(request) : OvercastRequest(request, ttl, net)
    \/ \E off \in BOOLEAN : NewSession(off)
    \/ Tick

Spec == Init /\ [][Next]_vars

(***************************************************************************)
(* Session.get on a cache directory that an earlier run left behind: the   *)
(* file of the request is what filepath.read_bytes() finds, and it need    *)
(* not be an entry that Session.get wrote in full.                         *)
(***************************************************************************)
\* an entry as line 127 writes it
WrittenEntry ==
    response_to_bytes(Response(200, "OK",
        <<Header("Content-Type", 1), Header("Date", 0), Header("Expires", 0)>>,
        <<"x">>))

\* the first n bytes of the entry: a write that was cut short
Truncated(n) == SubSeq(WrittenEntry, 1, n)

\* what the file can hold: nothing, a status line alone, the header lines
\* up to Date without the empty line, and well-formed entries that have
\* no Date header (with and without Expires)
FoundFiles ==
    { Truncated(0), Truncated(2), Truncated(6),
      response_to_bytes(Response(200, "OK", <<Header("Content-Type", 1)>>, <<"x">>)),
      response_to_bytes(Response(200, "OK",
            <<Header("Content-Type", 1), Header("Expires", MaxClock + MaxTz + 1)>>,
            <<"x">>)) }

FoundInit ==
    /\ \E request \in Requests, found \in FoundFiles :
            /\ files = (cache_path(request) :> found)
            /\ directories = Parents(cache_path(request).dirs)
    /\ clock = 0
    /\ tz \in TzOffsets
    /\ offline \in BOOLEAN
    /\ last_request_at = DatetimeMin
    /\ sent_at = NeverSent
    /\ cache = NoCache
    /\ disk = NoFile
    /\ procs = NoProcs
    /\ db = NoDb
    /\ result = NoCall

SpecFound == (Init \/ FoundInit) /\ [][Next]_vars

(***************************************************************************)
(* Two processes, each with a Session of its own on the same cache         *)
(* directory, run Session.get for the same request.  There is no lock:     *)
(* the lookup and the fetch (lines 82-122), the open of the file with      *)
(* "wb" (line 125, which creates or truncates it) and the write of the     *)
(* buffered bytes when the with block closes the file (lines 126-127, one  *)
(* write at the start of the file) are steps of their own.                 *)
(***************************************************************************)
Processes == {1, 2}

RaceRequest == Request(Url(<<>>, <<"podcasts">>, <<>>), "text/html")

\* a process that has not called get yet
Idle == [pc |-> "start", data |-> <<>>, path |-> ""]

\* f.write(data) on a file opened without O_APPEND: the bytes go to the
\* start of the file, and what lies behind them stays
WriteAtStart(file, data) ==
    data \o SubSeq(file, Len(data) + 1, Len(file))

RaceInit ==
    /\ files = <<>>
    /\ directories = {}
    /\ clock = 0
    /\ tz = 0
    /\ offline = FALSE
    /\ last_request_at = DatetimeMin
    /\ sent_at = NeverSent
    /\ cache = NoCache
    /\ disk = NoFile
    /\ procs = [state |-> [p \in Processes |-> Idle], finished |-> <<>>]
    /\ db = NoDb
    /\ result = NoCall

race_frame == <<clock, tz, offline, last_request_at, sent_at,
                cache, disk, db, result>>

\* lines 82-122: the lookup, and the fetch when the lookup does not end the
\* call; a fetch that succeeded leaves the bytes to write
Fetch(p, ttl, net) ==
    LET o == Session_get(files, clock, tz, offline, DatetimeMin,
                         RaceRequest, ttl, TRUE, net)
    IN  /\ procs.state[p].pc = "start"
        /\ procs' = [procs EXCEPT !.state[p] =
                        IF o.path = "network_ok"
                        THEN [pc |-> "fetched",
                              data |-> o.files[cache_path(RaceRequest)],
                              path |-> o.path]
                        ELSE [pc |-> "done", data |-> <<>>, path |-> o.path]]
        /\ UNCHANGED <<files, directories, race_frame>>

\* lines 124-125: filepath.parent.mkdir(parents=True, exist_ok=True) and
\* filepath.open("wb")
OpenFile(p) ==
    /\ procs.state[p].pc = "fetched"
    /\ directories' = directories \cup Parents(cache_path(RaceRequest).dirs)
    /\ files' = (cache_path(RaceRequest) :> <<>>) @@ files
    /\ procs' = [procs EXCEPT !.state[p].pc = "opened"]
    /\ UNCHANGED race_frame

\* lines 126-127: the bytes are written and the file is closed
WriteClose(p) ==
    /\ procs.state[p].pc = "opened"
    /\ files' = (cache_path(RaceRequest) :>
                    WriteAtStart(files[cache_path(RaceRequest)], procs.state[p].data))
                 @@ files
    /\ procs' = [procs EXCEPT !.state[p].pc = "done",
                              !.finished = Append(@, p)]
    /\ UNCHANGED <<directories, race_frame>>

RaceNext ==
    \/ \E p \in Processes, ttl \in TTLs, net \in NetOutcomes : Fetch(p, ttl, net)
    \/ \E p \in Processes : OpenFile(p)
    \/ \E p \in Processes : WriteClose(p)

SpecRace == RaceInit /\ [][RaceNext]_vars

(***************************************************************************)
(* The codec and cache_path on their own: every step applies one of them   *)
(* to an input and records what came out.                                  *)
(***************************************************************************)
CodecBytes == {"x", LF, CR}
CodecBodies == UNION { [1..n -> CodecBytes] : n \in 0..MaxBody }
CodecHeaders ==
    { <<>>,
      <<Header("Content-Type", 1)>>,
      <<Header("Content-Type", 1), Header("Date", 0)>>,
      <<Header("Date", 0), Header("Content-Type", 1)>> }
CodecResponses ==
    { Response(c, Reason(c), h, b) :
        c \in {200, 404}, h \in CodecHeaders, b \in CodecBodies }

PathUrls ==
    { Url(d, n, q) :
        d \in { <<>>, <<"status">> },
        n \in { <<"get">>, <<"200">>, <<"feed", "xml">> },
        q \in { <<>>, <<"foo=bar">>, <<"v=1", "0">>, <<"v=1", "5">> } }
PathAccepts ==
    { NoAccept, "*/*", "application/json", "application/xml", "text/html",
      "text/plain" }
PathRequests == { Request(u, a) : u \in PathUrls, a \in PathAccepts }

PureInit ==
    /\ files = <<>>
    /\ directories = {}
    /\ clock = 0
    /\ tz = 0
    /\ offline = FALSE
    /\ last_request_at = DatetimeMin
    /\ sent_at = NeverSent
    /\ cache = NoCache
    /\ disk = NoFile
    /\ procs = NoProcs
    /\ db = NoDb
    /\ result = NoCall

\* response_to_bytes, then bytes_to_response, then response_to_bytes again
Codec(r) ==
    /\ result' = [api |-> "codec", response |-> r,
                  bytes |-> response_to_bytes(r),
                  decoded |-> bytes_to_response(response_to_bytes(r)),
                  encoded |-> response_to_bytes(bytes_to_response(response_to_bytes(r)))]
    /\ UNCHANGED <<files, directories, clock, tz, offline, last_request_at, sent_at,
                   cache, disk, procs, db>>

\* session.cache_path(request)
CachePath(request) ==
    /\ result' = [api |-> "cache_path", request |-> request,
                  filepath |-> cache_path(request)]
    /\ UNCHANGED <<files, directories, clock, tz, offline, last_request_at, sent_at,
                   cache, disk, procs, db>>

PureNext ==
    \/ \E r \in CodecResponses : Codec(r)
    \/ \E request \in PathRequests : CachePath(request)

SpecPure == PureInit /\ [][PureNext]_vars

(***************************************************************************)
(* Session.purge_cache, run on a cache directory that earlier runs of the  *)
(* program (or anything else) left behind.                                 *)
(***************************************************************************)
\* the directory holds no file and no directory
IsEmptyDir(dir, ds, fs) ==
    /\ \A p \in DOMAIN fs : p.dirs # dir
    /\ \A e \in ds : ~(Len(e) = Len(dir) + 1 /\ SubSeq(e, 1, Len(dir)) = dir)

\* path.unlink()
Unlink(fs, path) == [p \in DOMAIN fs \ {path} |-> fs[p]]

\* an expired entry is left alone
Purges_age_only(response, nw, oldest_date) ==
    response_date(response) > oldest_date

\* lines 190-195: "if expires < now" ... "elif date > oldest_date"
Purges(response, nw, oldest_date) ==
    \/ response_expires(response) < nw
    \/ response_date(response) > oldest_date

\* lines 187-195: the files in the order rglob hands them out; a file that
\* does not decode is skipped, one without a Date header ends the purge
RECURSIVE PurgeEntries(_, _, _, _)
PurgeEntries(fs, order, nw, oldest_date) ==
    IF order = <<>> THEN [files |-> fs, error |-> ""]
    ELSE LET path == Head(order)
             response == bytes_to_response(fs[path])
         IN  IF response = Malformed
             THEN PurgeEntries(fs, Tail(order), nw, oldest_date)
             ELSE IF ~HasHeader(response.headers, "Date")
             THEN [files |-> fs, error |-> "KeyError"]
             ELSE IF Purges(response, nw, oldest_date)
             THEN PurgeEntries(Unlink(fs, path), Tail(order), nw, oldest_date)
             ELSE PurgeEntries(fs, Tail(order), nw, oldest_date)

\* lines 197-200: rglob hands out a directory before the directories
\* inside it, so each one is looked at while those below it still exist
PruneDirs(ds, fs) ==
    { d \in ds : ~(Len(d) > 1 /\ d[1] = base_netloc /\ IsEmptyDir(d, ds, fs)) }

\* Session.purge_cache
purge_cache(fs, ds, clk, zone, older_than, order) ==
    LET nw == now(clk, zone)
    IN  IF nw + older_than > DatetimeMax
        THEN [files |-> fs, directories |-> ds, error |-> "OverflowError"]
        ELSE LET purged == PurgeEntries(fs, order, nw, nw + older_than)
             IN  IF purged.error # ""
                 THEN [files |-> purged.files, directories |-> ds,
                       error |-> purged.error]
                 ELSE [files |-> purged.files,
                       directories |-> PruneDirs(ds, purged.files),
                       error |-> ""]

PurgePaths ==
    { [dirs |-> <<base_netloc>>, name |-> <<"a">>],
      [dirs |-> <<base_netloc, "d", "e">>, name |-> <<"b">>] }

\* what a cache file can hold: an entry Session.get wrote at second d with
\* a ttl, the same without Expires, without Date, or bytes that do not decode
CacheFiles ==
    { response_to_bytes(Response(200, "OK",
            <<Header("Content-Type", 1), Header("Date", de[1]), Header("Expires", de[2])>>,
            <<"x">>)) :
        de \in { x \in (0..MaxClock) \X (0..(MaxClock + 1)) : x[2] >= x[1] } }
    \cup { response_to_bytes(Response(200, "OK",
            <<Header("Content-Type", 1), Header("Date", d)>>, <<"x">>)) :
                d \in 0..MaxClock }
    \cup { response_to_bytes(Response(200, "OK", <<Header("Content-Type", 1)>>, <<"x">>)),
           <<ByteTok("x")>> }

\* every order in which rglob can hand out the files
Orders(paths) ==
    { order \in [1..Cardinality(paths) -> paths] :
        \A i, j \in 1..Cardinality(paths) : i # j => order[i] # order[j] }

PurgeInit ==
    /\ \E paths \in SUBSET PurgePaths : files \in [paths -> CacheFiles]
    /\ \E empty \in SUBSET { <<base_netloc, "d">>, <<base_netloc, "d", "e">> } :
            directories = UNION { Parents(p.dirs) : p \in DOMAIN files }
                            \cup UNION { Parents(d) : d \in empty }
    /\ clock \in 0..MaxClock
    /\ tz \in TzOffsets
    /\ offline = FALSE
    /\ last_request_at = DatetimeMin
    /\ sent_at = NeverSent
    /\ cache = NoCache
    /\ disk = NoFile
    /\ procs = NoProcs
    /\ db = NoDb
    /\ result = NoCall

OlderThans == { 0, TicksPerSecond, TimedeltaMax }

\* a caller runs session.purge_cache(older_than)
Purge(older_than, order) ==
    LET o == purge_cache(files, directories, clock, tz, older_than, order)
    IN  /\ files' = o.files
        /\ directories' = o.directories
        /\ result' = [api |-> "purge_cache", older_than |-> older_than,
                      started |-> now(clock, tz), before |-> files,
                      error |-> o.error]
        /\ UNCHANGED <<clock, tz, offline, last_request_at, sent_at, cache, disk, procs, db>>

PurgeNext ==
    \/ \E older_than \in OlderThans, order \in Orders(DOMAIN files) :
            Purge(older_than, order)
    \/ Tick

SpecPurge == PurgeInit /\ [][PurgeNext]_vars

(***************************************************************************)
(* lru_cache.LRUCache.  _data, an OrderedDict, is the sequence of its      *)
(* items, least recently used first.  A value is None or a run of bytes.   *)
(* A pickle is the sequence of its opcodes and bytes.                      *)
(***************************************************************************)
NoneValue == [type |-> "NoneType", bytes |-> <<>>]
BytesValue(b) == [type |-> "bytes", bytes |-> b]
\* _SENTINEL = object()
_SENTINEL == [type |-> "sentinel", bytes |-> <<>>]
\* load_value() raises instead of returning a value
Raises == [type |-> "raise", bytes |-> <<>>]

Item(key, value) == [key |-> key, value |-> value]

\* pickle.DEFAULT_PROTOCOL, what pickle.dumps(self._data) uses
DefaultProtocol == 4
\* pickle.HIGHEST_PROTOCOL
HighestProtocol == 5

PickleTok(op, s, n) == [op |-> op, s |-> s, n |-> n]

ValueToks(value) ==
    IF value.type = "NoneType" THEN <<PickleTok("NONE", "", 0)>>
    ELSE <<PickleTok("BINBYTES", "", Len(value.bytes))>>
            \o [i \in 1..Len(value.bytes) |-> PickleTok("byte", value.bytes[i], 0)]

RECURSIVE ItemToks(_)
ItemToks(data) ==
    IF data = <<>> THEN <<>>
    ELSE <<PickleTok("KEY", Head(data).key, 0)>> \o ValueToks(Head(data).value)
            \o ItemToks(Tail(data))

\* pickle.dumps(data, protocol) of an OrderedDict
pickle_dumps(data, protocol) ==
    <<PickleTok("PROTO", "", protocol), PickleTok("ODICT", "", 0)>>
        \o ItemToks(data) \o <<PickleTok("STOP", "", 0)>>

RECURSIVE LoadItems(_, _)
LoadItems(toks, acc) ==
    IF toks = <<>> \/ Head(toks).op = "STOP" THEN acc
    ELSE IF toks[2].op = "NONE"
    THEN LoadItems(SubSeq(toks, 3, Len(toks)), Append(acc, Item(toks[1].s, NoneValue)))
    ELSE LoadItems(SubSeq(toks, 3 + toks[2].n, Len(toks)),
                   Append(acc, Item(toks[1].s,
                        BytesValue([i \in 1..toks[2].n |-> toks[2 + i].s]))))

\* the items come back most recently used first
pickle_load_reversed(blob) ==
    LET items == LoadItems(SubSeq(blob, 3, Len(blob)), <<>>)
    IN  [i \in 1..Len(items) |-> items[Len(items) + 1 - i]]

\* pickle.load(f): the items of the pickled OrderedDict, in its order
pickle_load(blob) == LoadItems(SubSeq(blob, 3, Len(blob)), <<>>)

\* list(data.keys())
Keys(data) == [i \in 1..Len(data) |-> data[i].key]

\* key in data
HasKey(data, key) == \E i \in 1..Len(data) : data[i].key = key

\* data.get(key, default)
DataGet(data, key, default) ==
    IF HasKey(data, key)
    THEN data[CHOOSE i \in 1..Len(data) : data[i].key = key].value
    ELSE default

\* del data[key]
DelItem(data, key) == SelectSeq(data, LAMBDA it : it.key # key)

\* data.move_to_end(key, last=True)
move_to_end(data, key) ==
    DelItem(data, key) \o <<Item(key, DataGet(data, key, _SENTINEL))>>

\* every assignment adds an item, also for a key that is there
StoreItem_appends(data, key, value) == Append(data, Item(key, value))

\* data[key] = value: a key that is there keeps its place
StoreItem(data, key, value) ==
    IF HasKey(data, key)
    THEN [i \in 1..Len(data) |->
            IF data[i].key = key THEN Item(key, value) ELSE data[i]]
    ELSE Append(data, Item(key, value))

\* data.update(items)
RECURSIVE update(_, _)
update(data, items) ==
    IF items = <<>> THEN data
    ELSE update(StoreItem(data, Head(items).key, Head(items).value), Tail(items))

LRUCache(path, data, max_bytesize, did_change) ==
    [path |-> path, _data |-> data, _max_bytesize |-> max_bytesize,
     _did_change |-> did_change]

\* LRUCache.bytesize
bytesize(c) == Len(pickle_dumps(c._data, DefaultProtocol))

\* LRUCache._load
_load(c, dsk) ==
    IF c.path = NoPath THEN c
    ELSE IF dsk = NoFile THEN c
    ELSE [c EXCEPT !._data = update(c._data, pickle_load(dsk)),
                   !._did_change = FALSE]

\* LRUCache.__init__
__init__(path, max_bytesize, dsk) ==
    _load(LRUCache(path, <<>>, max_bytesize, FALSE), dsk)

\* the while loop of trim; sorted_keys.pop(0) on an empty list raises
RECURSIVE TrimLoop(_, _, _)
TrimLoop(c, sorted_keys, count) ==
    IF ~(bytesize(c) > c._max_bytesize)
    THEN [cache |-> c, returned |-> count, error |-> ""]
    ELSE IF sorted_keys = <<>>
    THEN [cache |-> c, returned |-> count, error |-> "IndexError"]
    ELSE TrimLoop([c EXCEPT !._did_change = TRUE,
                            !._data = DelItem(c._data, Head(sorted_keys))],
                  Tail(sorted_keys), count + 1)

\* the most recently used keys go first
trim_newest_first(c) ==
    TrimLoop(c, [i \in 1..Len(c._data) |-> c._data[Len(c._data) + 1 - i].key], 0)

\* LRUCache.trim
trim(c) == TrimLoop(c, Keys(c._data), 0)

\* the map is written as it is, without trim
save_without_trim(c, dsk) ==
    IF c.path = NoPath
    THEN [cache |-> c, disk |-> dsk, error |-> "", wrote |-> FALSE]
    ELSE IF c._did_change = FALSE
    THEN [cache |-> c, disk |-> dsk, error |-> "", wrote |-> FALSE]
    ELSE [cache |-> c, disk |-> pickle_dumps(c._data, HighestProtocol),
          error |-> "", wrote |-> TRUE]

\* LRUCache.save
save(c, dsk) ==
    IF c.path = NoPath
    THEN [cache |-> c, disk |-> dsk, error |-> "", wrote |-> FALSE]
    ELSE IF c._did_change = FALSE
    THEN [cache |-> c, disk |-> dsk, error |-> "", wrote |-> FALSE]
    ELSE LET trimmed == trim(c)
         IN  IF trimmed.error # ""
             THEN [cache |-> trimmed.cache, disk |-> dsk, error |-> trimmed.error,
                   wrote |-> FALSE]
             ELSE [cache |-> trimmed.cache,
                   disk |-> pickle_dumps(trimmed.cache._data, HighestProtocol),
                   error |-> "", wrote |-> TRUE]

\* a hit returns the value and leaves the key where it is
__getitem___peek(c, key) ==
    LET value == DataGet(c._data, key, _SENTINEL)
    IN  IF value = _SENTINEL
        THEN [cache |-> c, returned |-> NoneValue]
        ELSE [cache |-> [c EXCEPT !._did_change = TRUE], returned |-> value]

\* LRUCache.__getitem__
__getitem__(c, key) ==
    LET value == DataGet(c._data, key, _SENTINEL)
    IN  IF value = _SENTINEL
        THEN [cache |-> c, returned |-> NoneValue]
        ELSE [cache |-> [c EXCEPT !._did_change = TRUE,
                                  !._data = move_to_end(c._data, key)],
              returned |-> value]

\* LRUCache.__setitem__
__setitem__(c, key, value) ==
    [c EXCEPT !._did_change = TRUE,
              !._data = move_to_end(StoreItem(c._data, key, value), key)]

\* LRUCache.__contains__
__contains__(c, key) == HasKey(c._data, key)

\* LRUCache.__len__
__len__(c) == Len(c._data)

\* the cache is marked as changed before load_value runs
LRUCache_get_dirty_first(c, key, loaded) ==
    LET value == DataGet(c._data, key, _SENTINEL)
    IN  IF value = _SENTINEL
        THEN IF loaded = Raises
             THEN [cache |-> [c EXCEPT !._did_change = TRUE],
                   returned |-> _SENTINEL, error |-> "OfflineError", loads |-> 1]
             ELSE [cache |-> [c EXCEPT !._did_change = TRUE,
                                       !._data = StoreItem(c._data, key, loaded)],
                   returned |-> loaded, error |-> "", loads |-> 1]
        ELSE [cache |-> [c EXCEPT !._did_change = TRUE,
                                  !._data = move_to_end(c._data, key)],
              returned |-> value, error |-> "", loads |-> 0]

\* a stored None counts as a miss
LRUCache_get_none_is_miss(c, key, loaded) ==
    LET value == DataGet(c._data, key, NoneValue)
    IN  IF value = NoneValue
        THEN IF loaded = Raises
             THEN [cache |-> c, returned |-> _SENTINEL, error |-> "OfflineError",
                   loads |-> 1]
             ELSE [cache |-> [c EXCEPT !._did_change = TRUE,
                                       !._data = StoreItem(c._data, key, loaded)],
                   returned |-> loaded, error |-> "", loads |-> 1]
        ELSE [cache |-> [c EXCEPT !._did_change = TRUE,
                                  !._data = move_to_end(c._data, key)],
              returned |-> value, error |-> "", loads |-> 0]

\* LRUCache.get; loaded is what load_value() would give
LRUCache_get(c, key, loaded) ==
    LET value == DataGet(c._data, key, _SENTINEL)
    IN  IF value = _SENTINEL
        THEN IF loaded = Raises
             THEN [cache |-> c, returned |-> _SENTINEL, error |-> "OfflineError",
                   loads |-> 1]
             ELSE [cache |-> [c EXCEPT !._did_change = TRUE,
                                       !._data = StoreItem(c._data, key, loaded)],
                   returned |-> loaded, error |-> "", loads |-> 1]
        ELSE [cache |-> [c EXCEPT !._did_change = TRUE,
                                  !._data = move_to_end(c._data, key)],
              returned |-> value, error |-> "", loads |-> 0]

(***************************************************************************)
(* State machine of one LRU cache file and the LRUCache objects that       *)
(* successive runs of the program build on it.                             *)
(***************************************************************************)
LRUKeys == {"k1", "k2", "k3"}
LRUValues == { NoneValue, BytesValue(<<"a">>) }
LRUPath == "overcast.pickle"
\* LRUCache(max_bytesize=...), scaled to the pickles of the model: an
\* empty map and two items fit, three items do not
MaxBytesize == 8

\* what the step did: the call, the object and the file it found, what it
\* returned or raised, and how often it ran load_value
Did(api, key, value, returned, error, loads) ==
    [api |-> api, key |-> key, value |-> value, returned |-> returned,
     error |-> error, loads |-> loads, before |-> cache, disk_before |-> disk]

http_vars == <<files, directories, clock, tz, offline, last_request_at, sent_at,
               procs, db>>

LRUInit ==
    /\ files = <<>>
    /\ directories = {}
    /\ clock = 0
    /\ tz = 0
    /\ offline = FALSE
    /\ last_request_at = DatetimeMin
    /\ sent_at = NeverSent
    /\ disk = NoFile
    /\ procs = NoProcs
    /\ db = NoDb
    /\ cache = __init__(LRUPath, MaxBytesize, NoFile)
    /\ result = NoCall

\* a later run of the program: LRUCache(path, max_bytesize)
Open(path) ==
    /\ cache' = __init__(path, MaxBytesize, disk)
    /\ result' = Did("__init__", "", NoneValue, NoneValue, "", 0)
    /\ UNCHANGED <<disk, http_vars>>

\* cache[key]
GetItem(key) ==
    /\ cache' = __getitem__(cache, key).cache
    /\ result' = Did("__getitem__", key, NoneValue, __getitem__(cache, key).returned, "", 0)
    /\ UNCHANGED <<disk, http_vars>>

\* every assignment is written through to the file
SetItem_write_through(key, value) ==
    /\ cache' = __setitem__(cache, key, value)
    /\ disk' = IF cache.path = NoPath THEN disk
               ELSE pickle_dumps(cache'._data, HighestProtocol)
    /\ result' = Did("__setitem__", key, value, NoneValue, "", 0)
    /\ UNCHANGED http_vars

\* cache[key] = value
SetItem(key, value) ==
    /\ cache' = __setitem__(cache, key, value)
    /\ result' = Did("__setitem__", key, value, NoneValue, "", 0)
    /\ UNCHANGED <<disk, http_vars>>

\* key in cache
Contains(key) ==
    /\ result' = Did("__contains__", key, NoneValue, __contains__(cache, key), "", 0)
    /\ UNCHANGED <<cache, disk, http_vars>>

\* len(cache)
Length ==
    /\ result' = Did("__len__", "", NoneValue, __len__(cache), "", 0)
    /\ UNCHANGED <<cache, disk, http_vars>>

\* cache.get(key, load_value)
GetOrLoad(key, loaded) ==
    LET o == LRUCache_get(cache, key, loaded)
    IN  /\ cache' = o.cache
        /\ result' = Did("get", key, loaded, o.returned, o.error, o.loads)
        /\ UNCHANGED <<disk, http_vars>>

\* cache.trim()
Trim ==
    /\ cache' = trim(cache).cache
    /\ result' = Did("trim", "", NoneValue, trim(cache).returned, trim(cache).error, 0)
    /\ UNCHANGED <<disk, http_vars>>

\* cache.save()
Save ==
    /\ cache' = save(cache, disk).cache
    /\ disk' = save(cache, disk).disk
    /\ result' = Did("save", "", NoneValue, NoneValue, save(cache, disk).error, 0)
    /\ UNCHANGED http_vars

LRUNext ==
    \/ \E path \in {LRUPath, NoPath} : Open(path)
    \/ \E key \in LRUKeys : GetItem(key)
    \/ \E key \in LRUKeys, value \in LRUValues : SetItem(key, value)
    \/ \E key \in LRUKeys : Contains(key)
    \/ Length
    \/ \E key \in LRUKeys, loaded \in LRUValues \cup {Raises} : GetOrLoad(key, loaded)
    \/ Trim
    \/ Save

SpecLRU == LRUInit /\ [][LRUNext]_vars

(***************************************************************************)
(* trim() as a function of the map and of the max_bytesize the object was  *)
(* constructed with.                                                       *)
(***************************************************************************)
\* the maps over LRUKeys, in every recency order
LRUContents ==
    { data \in UNION { [1..n -> { Item(k, v) : k \in LRUKeys, v \in LRUValues }] :
                            n \in 0..Cardinality(LRUKeys) } :
        \A i, j \in 1..Len(data) : i # j => data[i].key # data[j].key }

\* LRUCache(max_bytesize=...): any budget from 0 on
Budgets == 0..MaxBytesize

TrimInit ==
    /\ files = <<>>
    /\ directories = {}
    /\ clock = 0
    /\ tz = 0
    /\ offline = FALSE
    /\ last_request_at = DatetimeMin
    /\ sent_at = NeverSent
    /\ disk = NoFile
    /\ procs = NoProcs
    /\ db = NoDb
    /\ \E data \in LRUContents, max_bytesize \in Budgets, did_change \in BOOLEAN :
            cache = LRUCache(NoPath, data, max_bytesize, did_change)
    /\ result = NoCall

TrimNext == Trim

SpecTrim == TrimInit /\ [][TrimNext]_vars

(***************************************************************************)
(* db.Database inside main.Context: a CLI run loads feeds.csv and          *)
(* episodes.csv on entry, its commands change the collections in memory    *)
(* or raise, and Context.__exit__ hands the exception the chain ended      *)
(* with (or None) to Database.__exit__.  A feed is its id, added_at and    *)
(* is_following; an episode its overcast_url, feed_id and duration.        *)
(***************************************************************************)
NoneField == "None"
NoException == "None"

Feed(id, added_at, is_following) ==
    [id |-> id, added_at |-> added_at, is_following |-> is_following]

Episode(overcast_url, feed_id, duration) ==
    [overcast_url |-> overcast_url, feed_id |-> feed_id, duration |-> duration]

\* str(id) and int(text)
IdText(id) == IF id = 1 THEN "1" ELSE "2"
IdOf(text) == IF text = "1" THEN 1 ELSE 2

\* Feed.to_dict: a missing value is written as the empty string
Feed_to_dict(f) ==
    [id |-> IdText(f.id),
     added_at |-> IF f.added_at = NoneField THEN "" ELSE f.added_at,
     is_following |-> IF f.is_following = NoneField THEN ""
                      ELSE IF f.is_following = "True" THEN "1" ELSE "0"]

\* Feed.from_dict: an empty added_at is None, an empty is_following False
Feed_from_dict(d) ==
    Feed(IdOf(d.id),
         IF d.added_at = "" THEN NoneField ELSE d.added_at,
         IF d.is_following = "1" THEN "True" ELSE "False")

\* Episode.to_dict: "if self.duration" leaves out None and timedelta(0)
Episode_to_dict(e) ==
    [overcast_url |-> e.overcast_url,
     feed_id |-> IdText(e.feed_id),
     duration |-> IF e.duration \in {NoneField, "0s"} THEN "" ELSE "60"]

\* Episode.from_dict
Episode_from_dict(d) ==
    Episode(d.overcast_url, IdOf(d.feed_id),
            IF d.duration = "" THEN NoneField ELSE "60s")

\* Feed._sort_key: added_at, or datetime.max when there is none
Feed_sort_key(f) ==
    IF f.added_at = "t1" THEN 1 ELSE IF f.added_at = "t2" THEN 2 ELSE 3

\* Episode._sort_key: (feed_id, date_published), one date in the model
Episode_sort_key(e) == e.feed_id

\* list.sort(key=...) over rows paired with their keys: stable
RECURSIVE Sorted(_)
Sorted(keyed) ==
    IF keyed = <<>> THEN <<>>
    ELSE LET least == CHOOSE i \in 1..Len(keyed) :
                        /\ \A j \in 1..Len(keyed) : keyed[i].key <= keyed[j].key
                        /\ \A j \in 1..(i - 1) : keyed[j].key > keyed[i].key
         IN  <<keyed[least].row>>
                \o Sorted(SubSeq(keyed, 1, least - 1)
                            \o SubSeq(keyed, least + 1, Len(keyed)))

\* _nonnull_counts: per field, the rows whose value is not None
Feed_nonnull_counts(feeds) ==
    [id |-> Len(feeds),
     added_at |-> Cardinality({ i \in 1..Len(feeds) : feeds[i].added_at # NoneField }),
     is_following |->
        Cardinality({ i \in 1..Len(feeds) : feeds[i].is_following # NoneField })]

Episode_nonnull_counts(episodes) ==
    [overcast_url |-> Len(episodes),
     feed_id |-> Len(episodes),
     duration |->
        Cardinality({ i \in 1..Len(episodes) : episodes[i].duration # NoneField })]

\* FeedCollection.__init__ and EpisodeCollection.__init__
FeedCollection(feeds) ==
    [_feeds |-> feeds, _initial_nonnull_counts |-> Feed_nonnull_counts(feeds)]

EpisodeCollection(episodes) ==
    [_episodes |-> episodes,
     _initial_nonnull_counts |-> Episode_nonnull_counts(episodes)]

\* FeedCollection.load and EpisodeCollection.load
FeedCollection_load(csvfile) ==
    FeedCollection([i \in 1..Len(csvfile) |-> Feed_from_dict(csvfile[i])])

EpisodeCollection_load(csvfile) ==
    EpisodeCollection([i \in 1..Len(csvfile) |-> Episode_from_dict(csvfile[i])])

\* FeedCollection.save: the two assertions, then the file is rewritten
FeedCollection_save(c, csvfile) ==
    LET counts == Feed_nonnull_counts(c._feeds)
    IN  IF \E field \in DOMAIN counts :
                counts[field] < c._initial_nonnull_counts[field]
        THEN [csvfile |-> csvfile, error |-> "AssertionError", wrote |-> FALSE]
        ELSE IF Cardinality({ c._feeds[i].id : i \in 1..Len(c._feeds) }) # Len(c._feeds)
        THEN [csvfile |-> csvfile, error |-> "AssertionError", wrote |-> FALSE]
        ELSE [csvfile |-> [i \in 1..Len(c._feeds) |-> Feed_to_dict(c._feeds[i])],
              error |-> "", wrote |-> TRUE]

\* EpisodeCollection.save
EpisodeCollection_save(c, csvfile) ==
    LET counts == Episode_nonnull_counts(c._episodes)
    IN  IF \E field \in DOMAIN counts :
                counts[field] < c._initial_nonnull_counts[field]
        THEN [csvfile |-> csvfile, error |-> "AssertionError", wrote |-> FALSE]
        ELSE IF Cardinality({ c._episodes[i].overcast_url : i \in 1..Len(c._episodes) })
                    # Len(c._episodes)
        THEN [csvfile |-> csvfile, error |-> "AssertionError", wrote |-> FALSE]
        ELSE [csvfile |-> [i \in 1..Len(c._episodes) |->
                                Episode_to_dict(c._episodes[i])],
              error |-> "", wrote |-> TRUE]

\* FeedCollection.insert_or_update
FeedCollection_insert_or_update(c, feed_id, on_insert, on_update) ==
    LET found == { i \in 1..Len(c._feeds) : c._feeds[i].id = feed_id }
        first == CHOOSE i \in found : \A j \in found : i <= j
        feeds == IF found # {}
                 THEN [c._feeds EXCEPT ![first] = on_update[c._feeds[first]]]
                 ELSE Append(c._feeds, on_insert)
    IN  [c EXCEPT !._feeds =
            Sorted([i \in 1..Len(feeds) |->
                        [key |-> Feed_sort_key(feeds[i]), row |-> feeds[i]]])]

\* EpisodeCollection.insert_or_update
EpisodeCollection_insert_or_update(c, episode_url, on_insert, on_update) ==
    LET found == { i \in 1..Len(c._episodes) : c._episodes[i].overcast_url = episode_url }
        first == CHOOSE i \in found : \A j \in found : i <= j
        episodes == IF found # {}
                    THEN [c._episodes EXCEPT ![first] = on_update[c._episodes[first]]]
                    ELSE Append(c._episodes, on_insert)
    IN  [c EXCEPT !._episodes =
            Sorted([i \in 1..Len(episodes) |->
                        [key |-> Episode_sort_key(episodes[i]), row |-> episodes[i]]])]

\* Database.__init__
Database(feeds_csv, episodes_csv) ==
    [pc |-> "init", feeds |-> FeedCollection(<<>>), episodes |-> EpisodeCollection(<<>>),
     feeds_csv |-> feeds_csv, episodes_csv |-> episodes_csv,
     entry |-> [feeds_csv |-> feeds_csv, episodes_csv |-> episodes_csv],
     exc_type |-> NoException, error |-> "", writes |-> {}, commands |-> 0]

\* Database.__enter__
Database__enter__(d) ==
    [d EXCEPT !.pc = "entered",
              !.feeds = FeedCollection_load(d.feeds_csv),
              !.episodes = EpisodeCollection_load(d.episodes_csv),
              !.entry = [feeds_csv |-> d.feeds_csv, episodes_csv |-> d.episodes_csv]]

\* both files are saved whatever the chain ended with
Database__exit___saves_always(d, exc_type) ==
    LET feeds == FeedCollection_save(d.feeds, d.feeds_csv)
        episodes == EpisodeCollection_save(d.episodes, d.episodes_csv)
    IN  [d EXCEPT !.pc = "exited",
                  !.feeds_csv = feeds.csvfile,
                  !.episodes_csv = episodes.csvfile,
                  !.writes = {"feeds.csv", "episodes.csv"}]

\* Database.__exit__: feeds.save, then episodes.save, when no exception
\* came in; an assertion of feeds.save keeps episodes.save from running
Database__exit__(d, exc_type) ==
    IF exc_type = NoException
    THEN LET feeds == FeedCollection_save(d.feeds, d.feeds_csv)
             episodes == EpisodeCollection_save(d.episodes, d.episodes_csv)
         IN  IF feeds.error # ""
             THEN [d EXCEPT !.pc = "exited", !.error = feeds.error]
             ELSE [d EXCEPT !.pc = "exited",
                            !.feeds_csv = feeds.csvfile,
                            !.episodes_csv = episodes.csvfile,
                            !.error = episodes.error,
                            !.writes = {"feeds.csv"}
                                \cup (IF episodes.wrote THEN {"episodes.csv"} ELSE {})]
    ELSE [d EXCEPT !.pc = "exited"]

\* Context.__exit__: self.db.__exit__(exc_type, exc_value, traceback)
Context__exit__(d, exc_type) == Database__exit__(d, exc_type)

FeedIds == {1, 2}
EpisodeUrls == {"e1", "e2"}
\* what the two files hold before the run: files that save() wrote
FeedsCsvs == { <<>>, <<Feed_to_dict(Feed(1, "t2", NoneField))>> }
EpisodesCsvs == { <<>>, <<Episode_to_dict(Episode("e1", 1, NoneField))>> }
\* the exceptions that end a chain: raised by a fetch, not caught by the
\* commands
Exceptions == {"LoggedOutError", "OfflineError"}
\* the commands of one chain change the collections at most this often
MaxCommands == 2

cli_frame == <<files, directories, clock, tz, offline, last_request_at, sent_at,
               cache, disk, procs, result>>

CliInit ==
    /\ files = <<>>
    /\ directories = {}
    /\ clock = 0
    /\ tz = 0
    /\ offline = FALSE
    /\ last_request_at = DatetimeMin
    /\ sent_at = NeverSent
    /\ cache = NoCache
    /\ disk = NoFile
    /\ procs = NoProcs
    /\ \E feeds_csv \in FeedsCsvs, episodes_csv \in EpisodesCsvs :
            db = Database(feeds_csv, episodes_csv)
    /\ result = NoCall

\* cli(): ctx.with_resource(context) enters the Context
ContextEnter ==
    /\ db.pc = "init"
    /\ db' = Database__enter__(db)
    /\ UNCHANGED cli_frame

\* refresh-opml-export, lines 171-176: a feed of the export is inserted or
\* brought up to date
RefreshFeed(feed_id, added_at, is_subscribed) ==
    LET on_feed_insert == Feed(feed_id, added_at, is_subscribed)
        on_feed_update ==
            [db_feed \in { db.feeds._feeds[i] : i \in 1..Len(db.feeds._feeds) } |->
                [db_feed EXCEPT !.added_at = added_at, !.is_following = is_subscribed]]
    IN  /\ db.pc = "entered"
        /\ db.commands < MaxCommands
        /\ db' = [db EXCEPT !.commands = @ + 1,
                            !.feeds = FeedCollection_insert_or_update(
                                        db.feeds, feed_id, on_feed_insert, on_feed_update)]
        /\ UNCHANGED cli_frame

\* _refresh_feed, lines 335-375: an episode of the feed page is inserted,
\* or its missing duration filled in
RefreshEpisode(episode_url, feed_id, duration) ==
    LET on_episode_insert == Episode(episode_url, feed_id, duration)
        on_episode_update ==
            [db_episode \in { db.episodes._episodes[i] :
                                i \in 1..Len(db.episodes._episodes) } |->
                IF db_episode.duration = NoneField /\ duration # NoneField
                THEN [db_episode EXCEPT !.duration = duration]
                ELSE db_episode]
    IN  /\ db.pc = "entered"
        /\ db.commands < MaxCommands
        /\ db' = [db EXCEPT !.commands = @ + 1,
                            !.episodes = EpisodeCollection_insert_or_update(
                                        db.episodes, episode_url,
                                        on_episode_insert, on_episode_update)]
        /\ UNCHANGED cli_frame

\* a fetch inside a command raises and no command catches it
ChainRaises(exception) ==
    /\ db.pc = "entered"
    /\ db' = [db EXCEPT !.pc = "unwinding", !.exc_type = exception]
    /\ UNCHANGED cli_frame

\* the last command of the chain returns
ChainReturns ==
    /\ db.pc = "entered"
    /\ db' = [db EXCEPT !.pc = "unwinding", !.exc_type = NoException]
    /\ UNCHANGED cli_frame

\* the click context is closed: Context.__exit__
ContextExit ==
    /\ db.pc = "unwinding"
    /\ db' = Context__exit__(db, db.exc_type)
    /\ UNCHANGED cli_frame

CliNext ==
    \/ ContextEnter
    \/ \E feed_id \in FeedIds, added_at \in {"t1", "t2"},
            is_subscribed \in {"True", "False"} :
                RefreshFeed(feed_id, added_at, is_subscribed)
    \/ \E episode_url \in EpisodeUrls, feed_id \in FeedIds,
            duration \in {NoneField, "0s", "60s"} :
                RefreshEpisode(episode_url, feed_id, duration)
    \/ \E exception \in Exceptions : ChainRaises(exception)
    \/ ChainReturns
    \/ ContextExit

SpecCli == CliInit /\ [][CliNext]_vars

(***************************************************************************)
(* Vocabulary of the properties.  They are about one step that is a call   *)
(* of Session.get or of _request: the unprimed variables are the state the *)
(* call found, result' holds its arguments and what came of it.            *)
(***************************************************************************)
Called == result'.api # "none"
CalledGet == Called /\ result'.api = "get"
CalledRequest == Called /\ result'.api = "_request"

\* a cache file exists for the request
HasCache(request) == cache_path(request) \in DOMAIN files

\* the entry the cache file of the request holds
CachedEntry(request) == bytes_to_response(files[cache_path(request)])

\* the second the host's clock shows: what datetime.now() reads
LocalSecond == clock + tz

\* the entry of the request carries an Expires later than the host's clock
EntryUnexpired(request) ==
    /\ HasHeader(CachedEntry(request).headers, "Expires")
    /\ GetHeader(CachedEntry(request).headers, "Expires") > LocalSecond

\* the response holds the login-page marker
Marked(response) ==
    LoginMarker \in { response.content[i] : i \in 1..Len(response.content) }

\* the step left the session and the cache directory as they were
NothingDone ==
    /\ result'.sent = 0
    /\ result'.throttled = 0
    /\ ~result'.wrote
    /\ files' = files
    /\ last_request_at' = last_request_at
    /\ clock' = clock

\* the step returned (response, True)
ReturnedCached(response) ==
    /\ result'.outcome = "return"
    /\ result'.from_cache
    /\ result'.response = response
    /\ result'.error = ""

\* the step sent a request and the network answered with an error status
\* other than 429
OtherErrorStatus ==
    result'.sent = 1 /\ result'.answer >= 400 /\ result'.answer # 429

\* the step sent a request and got no answer: the send raised
TransportError ==
    result'.sent = 1 /\ result'.answer = 0

C3_FreshnessMonotonicity ==
    [][( /\ result.api = "get"
         /\ result.path = "network_ok"
         /\ result.ttl > 0
         /\ GetHeader(result.response.headers, "Date") = clock
         /\ CalledGet
         /\ result'.request = result.request )
        => /\ result'.outcome = "return"
           /\ result'.from_cache
           /\ result'.response.content = result.response.content
           /\ result'.sent = 0
      ]_vars

(***************************************************************************)
(* C4  Offline with no cache: an offline Session.get for a request without *)
(* a cache file raises OfflineError, sends nothing, does not throttle and  *)
(* creates no file.                                                        *)
(***************************************************************************)
C4_OfflineNoCache ==
    [][(Called /\ offline /\ ~HasCache(result'.request))
        => /\ result'.outcome = "raise"
           /\ result'.error = "OfflineError"
           /\ result'.response = None
           /\ NothingDone
           /\ DOMAIN files' = DOMAIN files
      ]_vars

C4_Witness ==
    /\ result.api = "get"
    /\ result.error = "OfflineError"
    /\ offline
    /\ ~HasCache(result.request)

(***************************************************************************)
(* C5  Offline with a cache file: an offline Session.get for a request     *)
(* whose cache file exists, fresh or expired (an entry written with        *)
(* ttl = 0 included), returns (the cached entry, True) without an error    *)
(* and without a network request.                                          *)
(***************************************************************************)
C5_OfflineStale ==
    [][(CalledGet /\ offline /\ HasCache(result'.request))
        => (ReturnedCached(CachedEntry(result'.request)) /\ NothingDone)
      ]_vars

\* the entry served offline had been written with ttl = 0 and has expired
C5_Witness ==
    /\ result.api = "get"
    /\ result.path = "offline_stale"
    /\ offline
    /\ HasCache(result.request)
    /\ result.response = CachedEntry(result.request)
    /\ GetHeader(result.response.headers, "Expires")
            = GetHeader(result.response.headers, "Date")
    /\ ~EntryUnexpired(result.request)

(***************************************************************************)
(* C6  Stale on an HTTP error status: when the network answers a           *)
(* Session.get with a 4xx/5xx status other than 429, stale_cache_on_error  *)
(* is true and a cache entry (expired or not) exists for the request, get  *)
(* returns (the cached entry, True) and does not raise.                    *)
(***************************************************************************)
C6_StaleOnHttpError ==
    [][(CalledGet /\ OtherErrorStatus /\ result'.stale /\ HasCache(result'.request))
        => /\ ReturnedCached(CachedEntry(result'.request))
           /\ files' = files
      ]_vars

C6_Witness ==
    /\ result.api = "get"
    /\ result.stale
    /\ result.sent = 1
    /\ result.answer \in {404, 500}
    /\ result.outcome = "return"
    /\ HasCache(result.request)
    /\ result.response = CachedEntry(result.request)

(***************************************************************************)
(* C7  Stale on a transport failure: when sending the request raises a     *)
(* transport error, stale_cache_on_error is true and a stale cache entry   *)
(* exists for the request, Session.get returns (the stale entry, True)     *)
(* and does not propagate the error.                                       *)
(***************************************************************************)
C7_StaleOnTransportError ==
    [][(CalledGet /\ TransportError /\ result'.stale /\ HasCache(result'.request))
        => ReturnedCached(CachedEntry(result'.request))
      ]_vars

(***************************************************************************)
(* C8  No fallback available: when the network request of a Session.get    *)
(* fails with an error other than a 429 and stale_cache_on_error is false  *)
(* or no cache entry exists, the error reaches the caller unchanged and no *)
(* response is returned; _request passes such an error on as it is.        *)
(***************************************************************************)
C8_NoFallback ==
    [][( /\ Called
         /\ OtherErrorStatus \/ TransportError
         /\ ~result'.stale \/ ~HasCache(result'.request) )
        => /\ result'.outcome = "raise"
           /\ result'.response = None
           /\ ~result'.from_cache
           /\ TransportError => result'.error = "ConnectionError"
           /\ OtherErrorStatus =>
                (result'.error = "HTTPError" /\ result'.error_status = result'.answer)
           /\ files' = files
      ]_vars

\* stale_cache_on_error = False kept an existing entry from being served
C8_Witness ==
    /\ result.api = "get"
    /\ ~result.stale
    /\ result.error = "HTTPError"
    /\ result.error_status \in {404, 500}
    /\ result.outcome = "raise"
    /\ HasCache(result.request)

(***************************************************************************)
(* C9  Rate limiting: whenever the upstream answers the network request of *)
(* a _request with 429, the call raises the rate-limited error, whether or *)
(* not a cache entry exists; a cached entry is never served in its place.  *)
(***************************************************************************)
C9_RateLimited ==
    [][(CalledRequest /\ result'.sent = 1 /\ result'.answer = 429)
        => /\ result'.outcome = "raise"
           /\ result'.error = "RatedLimitedError"
      ]_vars

(***************************************************************************)
(* C10  Logged-out detection: whatever path the response of a _request     *)
(* came by (network, fresh hit, offline, stale on error), _request raises  *)
(* LoggedOutError when the response holds the login-page marker, and so    *)
(* never returns a response that holds it.                                 *)
(***************************************************************************)
C10_LoggedOut ==
    [][CalledRequest
        => /\ result'.outcome = "return" => ~Marked(result'.response)
           \* the response came from the cache file, which the call left alone
           /\ ( /\ result'.path \in {"fresh", "offline_stale", "stale_on_error"}
                /\ Marked(CachedEntry(result'.request)) )
                => (result'.outcome = "raise" /\ result'.error = "LoggedOutError")
           \* the response came from the network and was written to the file
           /\ ( /\ result'.path = "network_ok"
                /\ Marked(bytes_to_response(files'[cache_path(result'.request)])) )
                => (result'.outcome = "raise" /\ result'.error = "LoggedOutError")
           /\ result'.error = "LoggedOutError" =>
                result'.path \in {"fresh", "offline_stale", "stale_on_error", "network_ok"}
      ]_vars

\* a logged-out page served from an expired entry after an error status
C10_Witness ==
    /\ result.api = "_request"
    /\ result.error = "LoggedOutError"
    /\ result.path = "stale_on_error"
    /\ HasCache(result.request)
    /\ Marked(CachedEntry(result.request))

(***************************************************************************)
(* C11  Throttle spacing: when a Session that has already sent a request   *)
(* sends another one, at least min_time_between_requests of real time lie  *)
(* between the two sends.                                                  *)
(***************************************************************************)
C11_ThrottleSpacing ==
    [][(Called /\ result'.sent = 1 /\ sent_at # NeverSent)
        => (clock' - sent_at) * TicksPerSecond >= MinTimeBetweenRequests
      ]_vars

\* the second request came too early and the session slept before it
C11_Witness ==
    /\ result.sent = 1
    /\ result.slept
    /\ sent_at = clock
    /\ last_request_at = now(clock, tz)

(***************************************************************************)
(* C12  Throttle only around network calls: a call that ends as a fresh    *)
(* hit or an offline hit does not run the throttle, does not sleep and     *)
(* leaves _last_request_at alone; _last_request_at changes only in a call  *)
(* that sends a request, and no call of one Session ever lowers it.        *)
(***************************************************************************)
C12_ThrottleOnlyOnNetwork ==
    [][Called
        => /\ last_request_at' >= last_request_at
           /\ last_request_at' # last_request_at => result'.sent = 1
           /\ result'.path \in {"fresh", "offline_stale"}
                => /\ result'.throttled = 0
                   /\ ~result'.slept
                   /\ clock' = clock
                   /\ last_request_at' = last_request_at
      ]_vars

\* a fresh hit within min_time_between_requests of the session's last send
C12_Witness ==
    /\ result.path = "fresh"
    /\ result.throttled = 0
    /\ sent_at # NeverSent
    /\ last_request_at # DatetimeMin
    /\ last_request_at + MinTimeBetweenRequests > now(clock, tz)

(***************************************************************************)
(* C13  Write on success: a Session.get with ttl > 0 whose network request *)
(* succeeds returns (response, False); the returned response and the       *)
(* persisted entry carry an Expires equal to the response's Date plus the  *)
(* ttl, and is_cache_fresh for the request is true right afterwards.       *)
(***************************************************************************)
C13_WriteOnSuccess ==
    [][(CalledGet /\ result'.path = "network_ok" /\ result'.ttl > 0)
        => /\ result'.outcome = "return"
           /\ ~result'.from_cache
           /\ HasHeader(result'.response.headers, "Expires")
           /\ response_expires(result'.response)
                = response_date(result'.response) + result'.ttl
           /\ cache_path(result'.request) \in DOMAIN files'
           /\ response_expires(Session_cached_response(files', result'.request))
                = response_date(result'.response) + result'.ttl
           /\ is_cache_fresh(files', clock', tz', result'.request) = "True"
      ]_vars

(***************************************************************************)
(* C14  ttl = 0 entries: a Session.get with ttl = 0 whose network request  *)
(* succeeds persists the entry without an Expires header, and the entry    *)
(* counts as expired when it is read next.                                 *)
(***************************************************************************)
C14_ZeroTtlNoExpires ==
    [][(CalledGet /\ result'.path = "network_ok" /\ result'.ttl = 0)
        => /\ cache_path(result'.request) \in DOMAIN files'
           /\ ~HasHeader(Session_cached_response(files', result'.request).headers,
                         "Expires")
           /\ ~CacheValid(response_expires(
                            Session_cached_response(files', result'.request)),
                          clock', tz')
      ]_vars

(***************************************************************************)
(* C15  Codec round trip: for every response r, whatever line breaks its   *)
(* body holds, bytes_to_response(response_to_bytes(r)) is r again: same    *)
(* status, reason, headers in the same order, and the same body bytes.     *)
(***************************************************************************)
C15_CodecRoundTrip ==
    result.api = "codec"
        => /\ result.decoded.status_code = result.response.status_code
           /\ result.decoded.reason = result.response.reason
           /\ result.decoded.headers = result.response.headers
           /\ result.decoded.content = result.response.content

(***************************************************************************)
(* C16  Codec inverse round trip: for every byte string b in the framing   *)
(* the codec writes, response_to_bytes(bytes_to_response(b)) is b again,   *)
(* and the decoded status code, headers and body are the framed ones.      *)
(***************************************************************************)
C16_CodecInverseRoundTrip ==
    result.api = "codec"
        => /\ result.encoded = result.bytes
           /\ result.decoded.status_code = result.bytes[1].n
           /\ result.decoded.headers = result.response.headers
           /\ result.decoded.content = result.response.content

(***************************************************************************)
(* C17  Key derivation: cache_path gives the same path whenever it is      *)
(* asked about the same URL and Accept, and two requests for one URL path  *)
(* that differ in their Accept or in their query string get two paths.     *)
(***************************************************************************)
C17_KeyDerivation ==
    result.api = "cache_path"
        => /\ cache_path(result.request) = result.filepath
           /\ \A other \in PathRequests :
                ( /\ other.url.dirs = result.request.url.dirs
                  /\ other.url.name = result.request.url.name
                  /\ \/ other.url.query # result.request.url.query
                     \/ other.accept # result.request.accept )
                    => cache_path(other) # result.filepath

\* <cache_dir>/<host>/<URL path>, "?<query>" added to the last segment,
\* ".<ext>" added to the file name for an Accept with a known extension
ExpectedLayout(request) ==
    [dirs |-> <<base_netloc>> \o request.url.dirs,
     name |-> WithQuery(request.url.name, request.url.query)
                \o (IF request.accept \in {"application/json", "application/xml", "text/html"}
                    THEN <<mime_type_extnames(request.accept)>>
                    ELSE <<>>)]

(***************************************************************************)
(* C18  Path layout: for every request under the base URL, cache_path is   *)
(* <cache_dir>/<host>/<URL path without its leading slash>, with           *)
(* "?<query>" appended to the last segment when there is a query string    *)
(* and ".<ext>" appended to the file name when the Accept maps to a known  *)
(* extension; no Accept, or "*/*", adds no extension.                      *)
(***************************************************************************)
C18_PathLayout ==
    result.api = "cache_path" => result.filepath = ExpectedLayout(result.request)

\* purge_cache has just returned
Purged == result.api = "purge_cache" /\ result.error = ""

C20_PurgeOverAge ==
    Purged =>
        \A p \in DOMAIN result.before :
            ( /\ bytes_to_response(result.before[p]) # Malformed
              /\ result.started - response_date(bytes_to_response(result.before[p]))
                    > result.older_than )
                => p \notin DOMAIN files

(***************************************************************************)
(* C21  Purge prunes empty directories: when purge_cache has returned, no  *)
(* directory under the session's cache directory is empty, a directory     *)
(* that lost its last child directory during the purge included.           *)
(***************************************************************************)
C21_PurgePrunesDirs ==
    Purged =>
        \A d \in directories :
            (Len(d) > 1 /\ d[1] = base_netloc) => ~IsEmptyDir(d, directories, files)

\* the items of data after its first k
DropFirst(data, k) == SubSeq(data, k + 1, Len(data))

(***************************************************************************)
(* C22  LRU trim: when trim() has returned on a cache whose serialized     *)
(* size was above max_bytesize, bytesize() <= max_bytesize, the keys gone  *)
(* are the first k of the recency order for the smallest k that meets the  *)
(* budget, the other keys are in the order they were in, and trim          *)
(* returned k.                                                             *)
(***************************************************************************)
C22_Trim ==
    ( /\ result.api = "trim"
      /\ result.error = ""
      /\ bytesize(result.before) > result.before._max_bytesize )
        => /\ bytesize(cache) <= cache._max_bytesize
           /\ result.returned \in 1..Len(result.before._data)
           /\ cache._data = DropFirst(result.before._data, result.returned)
           /\ \A j \in 0..(result.returned - 1) :
                Len(pickle_dumps(DropFirst(result.before._data, j), DefaultProtocol))
                    > cache._max_bytesize

\* the least recently used of three keys went, the other two stayed
C22_Witness ==
    /\ result.api = "trim"
    /\ result.error = ""
    /\ Len(result.before._data) = 3
    /\ result.returned = 1
    /\ Len(cache._data) = 2
    /\ bytesize(cache) <= cache._max_bytesize

\* the step read or wrote the key: a hit of cache[key] or of get, an
\* assignment, or a miss of get whose load_value returned
Accessed ==
    \/ result.api = "__getitem__" /\ HasKey(result.before._data, result.key)
    \/ result.api = "__setitem__"
    \/ result.api = "get" /\ result.error = ""

(***************************************************************************)
(* C23  LRU recency on access: a hit of cache[key] or get(key, ...), an    *)
(* assignment cache[key] = v and a populate-on-miss of get put the key at  *)
(* the most-recently-used end and leave the other keys in their order;     *)
(* a miss of cache[key], "in" and len move nothing.  trim evicts from the  *)
(* other end (C22), so a key accessed later goes after those accessed      *)
(* earlier.                                                                *)
(***************************************************************************)
C23_RecencyOnAccess ==
    /\ Accessed
        => /\ cache._data # <<>>
           /\ cache._data[Len(cache._data)].key = result.key
           /\ SubSeq(cache._data, 1, Len(cache._data) - 1)
                = DelItem(result.before._data, result.key)
    /\ ( \/ result.api \in {"__contains__", "__len__"}
         \/ result.api = "__getitem__" /\ ~HasKey(result.before._data, result.key) )
        => cache._data = result.before._data

\* a read of the least recently used of three keys made it the most
\* recently used one
C23_Witness ==
    /\ result.api = "__getitem__"
    /\ Len(result.before._data) = 3
    /\ result.before._data[1].key = result.key
    /\ cache._data[3].key = result.key
    /\ cache._data[1] = result.before._data[2]
    /\ cache._data[2] = result.before._data[3]

(***************************************************************************)
(* C24  get-or-compute: LRUCache.get(key, load_value) on a hit returns the *)
(* stored value, a stored None included, without calling load_value and    *)
(* without changing len; on a miss it calls load_value once, stores what   *)
(* it gave under key and returns it, so that another get for the key does  *)
(* not call load_value.                                                    *)
(***************************************************************************)
C24_GetOrCompute ==
    /\ (result.api = "get" /\ HasKey(result.before._data, result.key))
        => /\ result.error = ""
           /\ result.returned = DataGet(result.before._data, result.key, _SENTINEL)
           /\ result.loads = 0
           /\ __len__(cache) = __len__(result.before)
    /\ (result.api = "get" /\ ~HasKey(result.before._data, result.key)
            /\ result.value # Raises)
        => /\ result.error = ""
           /\ result.loads = 1
           /\ result.returned = result.value
           /\ DataGet(cache._data, result.key, _SENTINEL) = result.value
           /\ __len__(cache) = __len__(result.before) + 1
           /\ \A loaded \in LRUValues \cup {Raises} :
                /\ LRUCache_get(cache, result.key, loaded).loads = 0
                /\ LRUCache_get(cache, result.key, loaded).returned = result.value

\* a hit on a stored None, where load_value would have given a value
C24_Witness ==
    /\ result.api = "get"
    /\ HasKey(result.before._data, result.key)
    /\ DataGet(result.before._data, result.key, _SENTINEL) = NoneValue
    /\ result.value = BytesValue(<<"a">>)
    /\ result.returned = NoneValue
    /\ result.loads = 0

(***************************************************************************)
(* C25  get-or-compute on failure: when load_value raises during           *)
(* LRUCache.get on a miss, the exception reaches the caller, no entry is   *)
(* stored for the key, and the contents, the recency order and the dirty   *)
(* flag of the cache are what they were.                                   *)
(***************************************************************************)
C25_GetOrComputeFailure ==
    (result.api = "get" /\ ~HasKey(result.before._data, result.key)
        /\ result.value = Raises)
        => /\ result.error = "OfflineError"
           /\ result.loads = 1
           /\ ~HasKey(cache._data, result.key)
           /\ cache._data = result.before._data
           /\ cache._did_change = result.before._did_change
           /\ cache = result.before
           /\ disk = result.disk_before

\* load_value raised on a cache that was loaded from its file and not
\* touched since
C25_Witness ==
    /\ result.api = "get"
    /\ result.error = "OfflineError"
    /\ result.before._data # <<>>
    /\ ~result.before._did_change
    /\ ~cache._did_change
    /\ ~HasKey(cache._data, result.key)

\* what an object constructed on path finds in the file
Loaded(path, dsk) ==
    IF path = NoPath \/ dsk = NoFile THEN <<>> ELSE pickle_load(dsk)

(***************************************************************************)
(* C26  save: a cache with no mutation and no access hit since it was      *)
(* loaded holds what it loaded and save() leaves the file alone; every     *)
(* mutation or hit marks it, and save() of a marked cache with a path      *)
(* first trims and then writes the whole ordered map, so the blob in the   *)
(* file never exceeds max_bytesize.                                        *)
(***************************************************************************)
C26_Save ==
    /\ ~cache._did_change => cache._data = Loaded(cache.path, disk)
    /\ (result.api \notin {"none", "__init__"}
            /\ cache._data # result.before._data) => cache._did_change
    /\ (result.api \in {"__getitem__", "get"} /\ result.error = ""
            /\ HasKey(result.before._data, result.key)) => cache._did_change
    /\ (result.api = "save" /\ ~result.before._did_change)
            => /\ disk = result.disk_before
               /\ cache = result.before
    /\ (result.api = "save" /\ result.before._did_change
            /\ result.before.path # NoPath)
            => /\ result.error = ""
               /\ cache = trim(result.before).cache
               /\ disk = pickle_dumps(cache._data, HighestProtocol)
               /\ pickle_load(disk) = cache._data
    /\ disk # NoFile => Len(disk) <= MaxBytesize

\* save() of a map over its budget dropped entries and wrote the rest
C26_Witness ==
    /\ result.api = "save"
    /\ result.before._did_change
    /\ bytesize(result.before) > MaxBytesize
    /\ cache._data # <<>>
    /\ cache._data # result.before._data
    /\ disk = pickle_dumps(cache._data, HighestProtocol)
    /\ disk # result.disk_before

(***************************************************************************)
(* C27  save/load round trip: an LRUCache constructed on the path that     *)
(* save() wrote holds exactly the saved keys and values in the saved       *)
(* recency order, least recently used first, and is not marked as changed. *)
(***************************************************************************)
C27_SaveLoadRoundTrip ==
    /\ (result.api = "save" /\ result.error = "" /\ result.before._did_change
            /\ result.before.path # NoPath)
            => LET fresh == __init__(cache.path, cache._max_bytesize, disk)
               IN  /\ fresh._data = cache._data
                   /\ Keys(fresh._data) = Keys(cache._data)
                   /\ \A key \in LRUKeys :
                        DataGet(fresh._data, key, _SENTINEL)
                            = DataGet(cache._data, key, _SENTINEL)
                   /\ ~fresh._did_change
    /\ (result.api = "__init__" /\ cache.path # NoPath /\ disk # NoFile)
            => /\ pickle_dumps(cache._data, HighestProtocol) = disk
               /\ ~cache._did_change

\* a new object was constructed on a file that holds two entries, after
\* the object before it had moved on from what it saved
C27_Witness ==
    /\ result.api = "__init__"
    /\ cache.path = LRUPath
    /\ Len(cache._data) = 2
    /\ cache._data[1].value # cache._data[2].value
    /\ result.before._data # cache._data
    /\ result.before.path = LRUPath
    /\ ~cache._did_change

(***************************************************************************)
(* C28  map semantics: an assignment cache[k] = v makes cache[k] return v  *)
(* and k in cache hold, and leaves every other key as it was; cache[k]     *)
(* returns the stored value or None for a key that is not there and        *)
(* changes no key or value; k in cache says whether k is there; len(cache) *)
(* is the number of distinct keys.  Step by step this is: without trim,    *)
(* cache[k] is the value last assigned to k, None if there was none.       *)
(***************************************************************************)
C28_MapSemantics ==
    /\ Cardinality({ cache._data[i].key : i \in 1..Len(cache._data) })
            = Len(cache._data)
    /\ result.api = "__setitem__"
            => /\ __getitem__(cache, result.key).returned = result.value
               /\ __contains__(cache, result.key)
               /\ \A k \in LRUKeys \ {result.key} :
                    /\ DataGet(cache._data, k, _SENTINEL)
                            = DataGet(result.before._data, k, _SENTINEL)
                    /\ __contains__(cache, k) = __contains__(result.before, k)
               /\ __len__(cache) = __len__(result.before)
                    + (IF HasKey(result.before._data, result.key) THEN 0 ELSE 1)
    /\ result.api = "__getitem__"
            => /\ result.returned
                    = DataGet(result.before._data, result.key, NoneValue)
               /\ \A k \in LRUKeys :
                    DataGet(cache._data, k, _SENTINEL)
                        = DataGet(result.before._data, k, _SENTINEL)
               /\ __len__(cache) = __len__(result.before)
    /\ result.api = "__contains__"
            => /\ result.returned = HasKey(cache._data, result.key)
               /\ result.returned
                    = (DataGet(cache._data, result.key, _SENTINEL) # _SENTINEL)
    /\ result.api = "__len__"
            => result.returned
                    = Cardinality({ k \in LRUKeys : __contains__(cache, k) })

\* an assignment replaced the value of a key next to another key
C28_Witness ==
    /\ result.api = "__setitem__"
    /\ HasKey(result.before._data, result.key)
    /\ DataGet(result.before._data, result.key, _SENTINEL) # result.value
    /\ __getitem__(cache, result.key).returned = result.value
    /\ __len__(cache) = 2

\* the cache file of the request does not decode, or decodes to an entry
\* without a Date header
Corrupt(request) ==
    \/ CachedEntry(request) = Malformed
    \/ ~HasHeader(CachedEntry(request).headers, "Date")

(***************************************************************************)
(* C29  Corrupt cache entry: a Session.get that finds a cache file holding *)
(* bytes that do not parse, or an entry without a Date header, treats it   *)
(* as a cache miss: it does not raise over the file, the entry is not      *)
(* returned, and the call goes on to the offline check (OfflineError, as   *)
(* for no cache) or to the network.                                        *)
(***************************************************************************)
C29_CorruptIsMiss ==
    [][(CalledGet /\ HasCache(result'.request) /\ Corrupt(result'.request))
        => /\ result'.path # "corrupt"
           /\ result'.error \notin {"ValueError", "KeyError"}
           /\ ~result'.from_cache
           /\ offline => result'.error = "OfflineError"
           /\ ~offline => result'.sent = 1
      ]_vars

(***************************************************************************)
(* C30  Date on every persisted entry: every entry a Session.get writes    *)
(* carries a Date header that parses, and a network request that succeeds  *)
(* is persisted and returned also when the response came without a Date    *)
(* header (one is made up for it).                                         *)
(***************************************************************************)
C30_DateOnEveryEntry ==
    [][CalledGet
        => /\ result'.wrote
                => /\ cache_path(result'.request) \in DOMAIN files'
                   /\ HasHeader(Session_cached_response(files', result'.request).headers,
                                 "Date")
                   /\ strptime(strftime(response_date(
                            Session_cached_response(files', result'.request))))
                        = response_date(
                            Session_cached_response(files', result'.request))
           /\ (result'.sent = 1 /\ result'.answer \in 200..399)
                => /\ result'.outcome = "return"
                   /\ result'.wrote
                   /\ ~result'.from_cache
                   /\ HasHeader(result'.response.headers, "Date")
      ]_vars

(***************************************************************************)
(* C31  Cache writes only on success: a call changes the cache files only  *)
(* when its network request succeeded, and then the file of its request    *)
(* holds the encoding of exactly the response it returned and every other  *)
(* file is as before; a call that ends as a fresh hit, an offline hit,     *)
(* OfflineError, a stale-on-error fallback or a propagated error leaves    *)
(* every cache file as it was.                                             *)
(***************************************************************************)
C31_WritesOnlyOnSuccess ==
    [][Called
        => /\ files' # files
                => /\ result'.path = "network_ok"
                   /\ result'.sent = 1
                   /\ result'.answer \in 200..399
           /\ result'.path = "network_ok"
                => /\ DOMAIN files' = DOMAIN files \cup {cache_path(result'.request)}
                   /\ \A f \in DOMAIN files \ {cache_path(result'.request)} :
                        files'[f] = files[f]
                   /\ CalledGet =>
                        files'[cache_path(result'.request)]
                            = response_to_bytes(result'.response)
           /\ result'.path \in {"fresh", "offline_stale", "offline_error",
                                 "stale_on_error", "http_error", "transport_error"}
                => files' = files
      ]_vars

\* a later successful get wrote the file, which holds what it returned
C31_Witness ==
    /\ result.api = "get"
    /\ result.path = "network_ok"
    /\ result.slept
    /\ clock > 0
    /\ HasCache(result.request)
    /\ files[cache_path(result.request)] = response_to_bytes(result.response)
    /\ GetHeader(result.response.headers, "Date") = clock

(***************************************************************************)
(* C32  No internal retry: whatever its outcome (success, 429, another     *)
(* error status, a stale fallback, no answer), a call sends at most one    *)
(* network request and runs the throttle at most once, so it waits at most *)
(* one min_time_between_requests; it throttles exactly when it sends.      *)
(***************************************************************************)
C32_NoInternalRetry ==
    [][Called
        => /\ result'.sent \in {0, 1}
           /\ result'.throttled \in {0, 1}
           /\ result'.throttled = result'.sent
           /\ result'.slept => result'.throttled = 1
           /\ (clock' - clock) * TicksPerSecond
                <= MinTimeBetweenRequests + TicksPerSecond - 1
           /\ result'.sent = 0 => clock' = clock
           /\ result'.answer = 429
                => /\ result'.sent = 1
                   /\ result'.outcome = "return" => result'.from_cache
      ]_vars

\* a 429 that came after a throttle wait was raised, not tried again
C32_Witness ==
    /\ result.sent = 1
    /\ result.throttled = 1
    /\ result.slept
    /\ result.answer = 429
    /\ result.outcome = "raise"
    /\ result.error_status = 429

(***************************************************************************)
(* C33  trim termination: for every map and every max_bytesize from 0 on,  *)
(* a budget below the size of an empty map included, trim() ends without   *)
(* an exception and returns the number of entries it evicted.              *)
(***************************************************************************)
C33_TrimTerminates ==
    result.api = "trim"
        => /\ result.error = ""
           /\ result.returned = __len__(result.before) - __len__(cache)

\* the current GMT time, as a datetime
GmtNow == clock * TicksPerSecond

(***************************************************************************)
(* C34  GMT freshness comparison: whatever the UTC offset of the host, a   *)
(* call that finds an entry serves it as a fresh hit exactly when the      *)
(* current GMT time is before the GMT Expires of the entry (its response   *)
(* date plus the ttl, to the second), and the response date of the entry   *)
(* is not later than the current GMT time.                                 *)
(***************************************************************************)
C34_GmtFreshness ==
    [][(Called /\ HasCache(result'.request))
        => /\ (result'.path = "fresh")
                <=> (GmtNow < response_expires(CachedEntry(result'.request)))
           /\ response_date(CachedEntry(result'.request)) <= GmtNow
      ]_vars

(***************************************************************************)
(* C35  Batch persistence: cache[k] reads and writes, get(key,             *)
(* load_value), trim(), k in cache, len(cache) and the construction of the *)
(* object never write the cache file; the file changes only in save(), and *)
(* save() of a cache without a path writes nothing.                        *)
(***************************************************************************)
C35_BatchPersistence ==
    /\ result.api \in {"__getitem__", "__setitem__", "get", "trim",
                        "__contains__", "__len__", "__init__"}
            => disk = result.disk_before
    /\ (result.api # "none" /\ disk # result.disk_before)
            => /\ result.api = "save"
               /\ result.before.path # NoPath
    /\ (result.api = "save" /\ result.before.path = NoPath)
            => /\ disk = result.disk_before
               /\ cache = result.before

\* an assignment left the object different from the file it was loaded
\* from
C35_Witness ==
    /\ result.api = "__setitem__"
    /\ cache.path = LRUPath
    /\ disk # NoFile
    /\ disk = result.disk_before
    /\ pickle_load(disk) # cache._data
    /\ pickle_load(disk) = result.before._data

(***************************************************************************)
(* C36  Last-write-wins: when two processes run Session.get for the same   *)
(* key at the same time and both fetches succeed, then once both calls     *)
(* are over the cache file holds exactly the complete encoded response of  *)
(* the process whose write ended last, however their file operations were  *)
(* interleaved.                                                            *)
(***************************************************************************)
C36_LastWriteWins ==
    ( /\ \A p \in Processes : procs.state[p].pc = "done"
      /\ \A p \in Processes : procs.state[p].path = "network_ok" )
        => /\ Len(procs.finished) = Cardinality(Processes)
           /\ files[cache_path(RaceRequest)]
                = procs.state[procs.finished[Len(procs.finished)]].data

\* the file p, as the purge found it, decodes to an entry with a Date that
\* was written no later than the purge started (GMT against GMT)
WrittenBefore(p) ==
    /\ bytes_to_response(result.before[p]) # Malformed
    /\ HasHeader(bytes_to_response(result.before[p]).headers, "Date")
    /\ response_date(bytes_to_response(result.before[p])) <= GmtNow

\* the purge left the file p as it was
Kept(p) == p \in DOMAIN files /\ files[p] = result.before[p]

(***************************************************************************)
(* C37  Purge retains live entries: purge_cache(older_than = d), d >= 0,   *)
(* whether it returns or raises, deletes no entry whose Expires is later   *)
(* than the time the purge started (as the host's clock reads it) and      *)
(* whose Date is no more than d before that time; a file it cannot decode  *)
(* stays as it is.                                                         *)
(***************************************************************************)
C37_PurgeRetainsLive ==
    result.api = "purge_cache" =>
        \A p \in DOMAIN result.before :
            /\ bytes_to_response(result.before[p]) = Malformed => Kept(p)
            /\ ( /\ WrittenBefore(p)
                 /\ response_expires(bytes_to_response(result.before[p]))
                        > result.started
                 /\ result.started - response_date(bytes_to_response(result.before[p]))
                        <= result.older_than )
                    => Kept(p)

(***************************************************************************)
(* C38  Logged-out pages are cached: a _request whose fetch succeeds with  *)
(* a response that holds the login-page marker writes it to the cache file *)
(* with Expires = Date + ttl and then raises LoggedOutError; and as long   *)
(* as the Expires of such an entry has not passed, every _request for the  *)
(* key raises LoggedOutError without a network request.                    *)
(***************************************************************************)
C38_LoggedOutCached ==
    [][CalledRequest
        => /\ ( /\ result'.path = "network_ok"
                /\ Marked(bytes_to_response(files'[cache_path(result'.request)])) )
                => /\ result'.error = "LoggedOutError"
                   /\ GetHeader(bytes_to_response(
                            files'[cache_path(result'.request)]).headers, "Expires")
                        = strftime(strptime(clock') + result'.ttl)
           /\ ( /\ HasCache(result'.request)
                /\ Marked(CachedEntry(result'.request))
                /\ GmtNow < response_expires(CachedEntry(result'.request)) )
                => /\ result'.error = "LoggedOutError"
                   /\ result'.sent = 0
      ]_vars

(***************************************************************************)
(* C39  Purge with defaults: purge_cache() with its default older_than     *)
(* (timedelta.max) returns without an exception whatever the cache holds,  *)
(* and the entries it deleted are exactly those whose Expires is earlier   *)
(* than the time the purge started.                                        *)
(***************************************************************************)
C39_PurgeDefaults ==
    (result.api = "purge_cache" /\ result.older_than = TimedeltaMax)
        => /\ result.error = ""
           /\ \A p \in DOMAIN result.before :
                bytes_to_response(result.before[p]) # Malformed
                    => (p \notin DOMAIN files
                            <=> response_expires(bytes_to_response(result.before[p]))
                                    < result.started)

====
